---- MODULE Spec2Model ----
(***************************************************************************)
(* A model of the artisthub API handlers: the user handlers                *)
(* (src/unnamed/part_001) and the casting handlers                         *)
(* (src/src/handlers/casting.js) over their two DynamoDB tables.           *)
(*                                                                         *)
(* Every handler is an async function.  It runs from one `await` to the    *)
(* next without interruption, and the datastore request it awaits takes    *)
(* effect atomically at the store.  So a handler is modelled as a start    *)
(* step (the code before the first request) and one step per datastore     *)
(* request; the step of a request also runs the handler's code up to the   *)
(* next request (or to the return).  Invocations of different Lambda       *)
(* instances interleave at these steps.                                    *)
(*                                                                         *)
(* Records are TLA+ records whose domain is the set of attributes present, *)
(* so that an absent attribute (JavaScript's undefined) is a name that is  *)
(* not in the domain.  The usernameIndex is read consistently.             *)
(***************************************************************************)
EXTENDS Integers, Sequences, FiniteSets, TLC

VARIABLES
    users,    \* USERS_TABLE: userId -> item
    jobs,     \* CASTING_TABLE: jobId -> item
    inv,      \* per Lambda instance: the invocation it runs or has last answered
    clock,    \* the last value new Date() returned to anyone
    nextId,   \* uuidv4(): the next identifier it hands out
    calls,    \* invocations that can still start
    tasks,    \* TASKS_TABLE: id -> item
    pool      \* the Cognito user pool: username -> user

vars == <<users, jobs, inv, clock, nextId, calls, tasks, pool>>

(***************************************************************************)
(* Bounds of the model.                                                    *)
(***************************************************************************)
\* invocations started in one behaviour
MaxCalls == 3
\* invocations started in one behaviour of the applications of one job
MaxApplyCalls == 4
\* invocations started in one behaviour of the listings (a listing counts once)
MaxListCalls == 4
\* the clock reads 0..MaxClock
MaxClock == 1

\* The Lambda instances that can run at the same time.
Procs == {"p1", "p2"}

(***************************************************************************)
(* JavaScript values.                                                      *)
(***************************************************************************)
Has(r, f) == f \in DOMAIN r

\* {} as parsed from an empty body
EmptyObject == << >>

\* result.Item of a get that found nothing
NoItem == [none |-> TRUE]

\* JSON null
Null == "null"

\* The attributes whose sample values are strings; "" is their falsy value.
StringFields ==
    {"username", "email", "aboutMe", "privacy", "currentPlan", "firstName",
     "lastName", "fullName", "avatarUrl", "gender", "city", "workType",
     "brand", "workLink", "url", "type", "jobTitle", "jobDescription",
     "jobCategory", "jobType", "imageUrl", "phone_number"}

\* The attributes whose sample values are numbers; 0 is their falsy value.
NumberFields == {"view", "age", "status"}

\* !data[field]
Falsy(data, field) ==
    \/ ~Has(data, field)
    \/ field \in StringFields /\ data[field] = ""
    \/ field \in NumberFields /\ data[field] = 0

\* data[field] || dflt
OrElse(data, field, dflt) == IF Falsy(data, field) THEN dflt ELSE data[field]

\* data[obj]?.[field] || dflt
OrElseIn(data, obj, field, dflt) ==
    IF Has(data, obj) THEN OrElse(data[obj], field, dflt) ELSE dflt

\* The set of the missing fields; the source returns null for the empty set.
validateRequiredFields(data, requiredFields) ==
    {field \in requiredFields : Falsy(data, field)}

\* The elements of a list
Range(s) == {s[i] : i \in 1..Len(s)}

(***************************************************************************)
(* The DynamoDB document client.                                           *)
(***************************************************************************)
\* get({Key}).Item
GetItem(table, key) == IF key \in DOMAIN table THEN table[key] ELSE NoItem

\* query on usernameIndex, KeyConditionExpression 'username = :username':
\* the keys of the items found
QueryUsername(table, username) ==
    {k \in DOMAIN table : Has(table[k], "username") /\ table[k].username = username}

\* put({Item}) once its ConditionExpression attribute_not_exists(key) has passed
PutItem(table, key, item) == (key :> item) @@ table

\* UpdateItem as it would be if SET merged a nested object into the stored one
\* key by key.
UpdateItemMerging(table, keyName, key, sets) ==
    IF key \in DOMAIN table
    THEN [table EXCEPT ![key] =
            [f \in DOMAIN sets \cup DOMAIN @ |->
                IF f \notin DOMAIN sets THEN @[f]
                ELSE IF f \in DOMAIN @ /\ f \in {"basicDetails", "contactDetails",
                                                  "physicalStats", "skills",
                                                  "subscription", "tokens"}
                     THEN sets[f] @@ @[f]
                     ELSE sets[f]]]
    ELSE (key :> (sets @@ (keyName :> key))) @@ table

\* update({Key, UpdateExpression: 'SET ...'}) with no ConditionExpression: the
\* SET clauses overwrite whole top-level attributes, and an item that does not
\* exist is created from the key and the clauses.
UpdateItem(table, keyName, key, sets) ==
    IF key \in DOMAIN table
    THEN [table EXCEPT ![key] = sets @@ @]
    ELSE (key :> (sets @@ (keyName :> key))) @@ table

\* delete({Key})
DeleteItem(table, key) == [k \in DOMAIN table \ {key} |-> table[k]]

\* ListAppend as it would be if the clause were 'SET #attr = :elems'.
ListAppendOverwrite(table, key, attr, elems) == elems

\* list_append(if_not_exists(#attr, :empty), :elems) evaluated on the stored item
ListAppend(table, key, attr, elems) ==
    IF key \in DOMAIN table /\ Has(table[key], attr)
    THEN table[key][attr] \o elems
    ELSE elems

\* ViewPlusOne as it would be if the clause were 'SET #view = :inc'.
ViewSetToOne(table, key) == 1

\* if_not_exists(#view, :zero) + :inc evaluated on the stored item
ViewPlusOne(table, key) ==
    IF key \in DOMAIN table /\ Has(table[key], "view")
    THEN table[key].view + 1
    ELSE 1

\* username is the key of usernameIndex (src/USER_API.md, "Global Secondary
\* Index"): the store rejects a write that sets an index key to an empty string.
IndexKeyRejected(sets) == Has(sets, "username") /\ sets.username = ""

(***************************************************************************)
(* Invocations.                                                            *)
(***************************************************************************)
\* An instance that has not been invoked yet.
Idle ==
    [op |-> "none", pc |-> "done", id |-> 0, arg |-> 0, body |-> EmptyObject,
     now |-> 0, uid |-> 0, item |-> NoItem, status |-> 0]

\* The handler of instance p is at step `pc` of `op`.
At(p, op, pc) == inv[p].op = op /\ inv[p].pc = pc

\* The handler starts: event.pathParameters and the parsed event.body.
Started(op, id, arg, body, pc) ==
    [Idle EXCEPT !.op = op, !.pc = pc, !.id = id, !.arg = arg, !.body = body]

\* The handler returns a response with this status code.
Returned(r, status) ==
    [r EXCEPT !.pc = "done", !.status = status, !.now = 0, !.uid = 0, !.item = NoItem]

\* An instance takes a new invocation when it has answered the last one.
CanStart(p) == inv[p].pc = "done" /\ calls > 0

\* The identifiers a client can send in a path: the key of every stored item,
\* and 0, an identifier that uuidv4() never returns.
PathIds(table) == DOMAIN table \cup {0}

\* The user identifiers a client can send in a path or a body: 0, and 1, the
\* first identifier that uuidv4() hands out.
Applicants == {0, 1}

\* The document identifiers a client can send: those stored in a job, and 0.
DocIds ==
    {0} \cup UNION {{jobs[j].documents[i].id : i \in 1..Len(jobs[j].documents)} :
                     j \in {k \in DOMAIN jobs : "documents" \in DOMAIN jobs[k]}}

\* new Date(): the clock never goes backwards.
ClockReads == {t \in {clock, clock + 1} : t <= MaxClock}

(***************************************************************************)
(* createUser                                                              *)
(***************************************************************************)
CreateUserBodies ==
    {[username |-> "ann", email |-> "ann@x"],
     [username |-> "ann", email |-> "other@x", aboutMe |-> "hi"],
     [username |-> "bob", email |-> "bob@x", view |-> 7, createdAt |-> 5, updatedAt |-> 6],
     [username |-> "ann"],
     [email |-> "ann@x"]}

\* NewUser as it would be if the fields of the body were copied into the user.
NewUserFromBody(body, userId, now) ==
    body @@ [userId |-> userId, view |-> 0, createdAt |-> now, updatedAt |-> now]

\* const user = { ... }
NewUser(body, userId, now) ==
    LET basicDetails == IF Has(body, "basicDetails") THEN body.basicDetails ELSE EmptyObject
    IN  [userId |-> userId,
         username |-> body.username,
         email |-> body.email,
         privacy |-> OrElse(body, "privacy", "public"),
         currentPlan |-> OrElse(body, "currentPlan", "free"),
         view |-> 0,
         aboutMe |-> OrElse(body, "aboutMe", ""),
         device_tokens |-> OrElse(body, "device_tokens", << >>),
         subscription |->
             [activePlan |-> OrElseIn(body, "subscription", "activePlan", "free"),
              startDate |-> now,
              renewalDate |-> OrElseIn(body, "subscription", "renewalDate", Null),
              status |-> "active"],
         tokens |-> OrElse(body, "tokens",
                           [AccessToken |-> "", RefreshToken |-> "", IdToken |-> ""]),
         basicDetails |->
             [firstName |-> OrElse(basicDetails, "firstName", ""),
              lastName |-> OrElse(basicDetails, "lastName", ""),
              fullName |-> OrElse(basicDetails, "fullName", ""),
              avatarUrl |-> OrElse(basicDetails, "avatarUrl", ""),
              gender |-> OrElse(basicDetails, "gender", ""),
              category |-> OrElse(basicDetails, "category", << >>),
              birthDate |-> OrElse(basicDetails, "birthDate", Null),
              age |-> OrElse(basicDetails, "age", Null),
              city |-> OrElse(basicDetails, "city", "")],
         contactDetails |->
             [email |-> OrElseIn(body, "contactDetails", "email", body.email),
              phone |-> OrElseIn(body, "contactDetails", "phone", ""),
              instagram |-> OrElseIn(body, "contactDetails", "instagram", ""),
              facebook |-> OrElseIn(body, "contactDetails", "facebook", ""),
              twitter |-> OrElseIn(body, "contactDetails", "twitter", ""),
              youtube |-> OrElseIn(body, "contactDetails", "youtube", "")],
         physicalStats |->
             [height |-> OrElseIn(body, "physicalStats", "height", ""),
              weight |-> OrElseIn(body, "physicalStats", "weight", ""),
              bust |-> OrElseIn(body, "physicalStats", "bust", ""),
              waist |-> OrElseIn(body, "physicalStats", "waist", ""),
              hips |-> OrElseIn(body, "physicalStats", "hips", ""),
              chest |-> OrElseIn(body, "physicalStats", "chest", ""),
              biceps |-> OrElseIn(body, "physicalStats", "biceps", ""),
              hairType |-> OrElseIn(body, "physicalStats", "hairType", ""),
              hairLength |-> OrElseIn(body, "physicalStats", "hairLength", "")],
         skills |->
             [languages |-> OrElseIn(body, "skills", "languages", << >>),
              expertise |-> OrElseIn(body, "skills", "expertise", << >>),
              hobbies |-> OrElseIn(body, "skills", "hobbies", << >>)],
         workExperience |-> OrElse(body, "workExperience", << >>),
         portfolio |-> OrElse(body, "portfolio", << >>),
         appliedJobs |-> OrElse(body, "appliedJobs", << >>),
         requestSent |-> OrElse(body, "requestSent", << >>),
         requestReceived |-> OrElse(body, "requestReceived", << >>),
         connections |-> OrElse(body, "connections", << >>),
         createdAt |-> now,
         updatedAt |-> now]

\* Up to the username query: the body is parsed and validated, and userId and
\* now are drawn.
createUserStart(p) ==
    /\ CanStart(p)
    /\ calls' = calls - 1
    /\ \E body \in CreateUserBodies :
         IF validateRequiredFields(body, {"username", "email"}) # {}
         THEN /\ inv' = [inv EXCEPT ![p] = Returned(Started("createUser", 0, 0, body, "done"), 400)]
              /\ UNCHANGED <<tasks, pool, clock, nextId>>
         ELSE \E now \in ClockReads :
                /\ inv' = [inv EXCEPT ![p] =
                             [Started("createUser", 0, 0, body, "query")
                                EXCEPT !.uid = nextId, !.now = now]]
                /\ nextId' = nextId + 1
                /\ clock' = now
    /\ UNCHANGED <<tasks, pool, users, jobs>>

\* createUserQuery as it would be without the check of the query's result.
createUserQueryUnchecked(p) ==
    /\ At(p, "createUser", "query")
    /\ LET r == inv[p]
       IN  inv' = [inv EXCEPT ![p] =
                     [r EXCEPT !.pc = "put", !.item = NewUser(r.body, r.uid, r.now)]]
    /\ UNCHANGED <<tasks, pool, users, jobs, clock, nextId, calls>>

\* The usernameIndex query answers; the user object is built.
createUserQuery(p) ==
    /\ At(p, "createUser", "query")
    /\ LET r == inv[p]
       IN  IF QueryUsername(users, r.body.username) # {}
           THEN inv' = [inv EXCEPT ![p] = Returned(r, 409)]
           ELSE inv' = [inv EXCEPT ![p] =
                          [r EXCEPT !.pc = "put", !.item = NewUser(r.body, r.uid, r.now)]]
    /\ UNCHANGED <<tasks, pool, users, jobs, clock, nextId, calls>>

\* createUserPut as it would be if the put were also conditional on the
\* username being in no stored item.
createUserPutIfUnique(p) ==
    /\ At(p, "createUser", "put")
    /\ LET r == inv[p]
       IN  IF r.uid \in DOMAIN users \/ QueryUsername(users, r.body.username) # {}
           THEN /\ inv' = [inv EXCEPT ![p] = Returned(r, 409)]
                /\ UNCHANGED users
           ELSE /\ users' = PutItem(users, r.uid, r.item)
                /\ inv' = [inv EXCEPT ![p] = Returned(r, 201)]
    /\ UNCHANGED <<tasks, pool, jobs, clock, nextId, calls>>

\* createUserPut as it would be without the ConditionExpression.
createUserPutUnconditional(p) ==
    /\ At(p, "createUser", "put")
    /\ users' = PutItem(users, inv[p].uid, inv[p].item)
    /\ inv' = [inv EXCEPT ![p] = Returned(inv[p], 201)]
    /\ UNCHANGED <<tasks, pool, jobs, clock, nextId, calls>>

\* The conditional put answers.
createUserPut(p) ==
    /\ At(p, "createUser", "put")
    /\ LET r == inv[p]
       IN  IF r.uid \in DOMAIN users
           THEN /\ inv' = [inv EXCEPT ![p] = Returned(r, 409)]
                /\ UNCHANGED users
           ELSE /\ users' = PutItem(users, r.uid, r.item)
                /\ inv' = [inv EXCEPT ![p] = Returned(r, 201)]
    /\ UNCHANGED <<tasks, pool, jobs, clock, nextId, calls>>

createUser(p) == createUserStart(p) \/ createUserQuery(p) \/ createUserPut(p)

(***************************************************************************)
(* updateUser                                                              *)
(***************************************************************************)
UpdateUserBodies ==
    {EmptyObject,
     [createdAt |-> 5],
     [username |-> "ann"],
     [username |-> "bob"],
     [username |-> ""],
     [basicDetails |-> [firstName |-> "Jane", city |-> "Pune"]],
     [skills |-> [languages |-> <<"Hindi">>], workExperience |-> << >>]}

userUpdateableFields ==
    {"username", "email", "privacy", "currentPlan", "view", "aboutMe",
     "device_tokens", "subscription", "tokens", "basicDetails",
     "contactDetails", "physicalStats", "skills", "workExperience",
     "portfolio", "appliedJobs", "requestSent", "requestReceived", "connections"}

\* UpdateClauses as it would be if every key of the body were written.
UpdateClausesOfAllKeys(body, updateableFields, now) ==
    [f \in DOMAIN body \cup {"updatedAt"} |->
        IF f = "updatedAt" THEN now ELSE body[f]]

\* The SET clauses of the dynamic update expression: one for each updateable
\* field the body holds, and updatedAt.
UpdateClauses(body, updateableFields, now) ==
    [f \in (DOMAIN body \cap updateableFields) \cup {"updatedAt"} |->
        IF f = "updatedAt" THEN now ELSE body[f]]

\* if (updateExpressions.length === 0)
NoFieldsToUpdate(clauses) == DOMAIN clauses = {}

updateUserStart(p) ==
    /\ CanStart(p)
    /\ calls' = calls - 1
    /\ \E userId \in PathIds(users), body \in UpdateUserBodies :
         inv' = [inv EXCEPT ![p] = Started("updateUser", userId, 0, body, "get")]
    /\ UNCHANGED <<tasks, pool, users, jobs, clock, nextId>>

\* The clauses are built once the checks have passed.
UpdateUserPrepare(r, now) ==
    LET clauses == UpdateClauses(r.body, userUpdateableFields, now)
    IN  IF NoFieldsToUpdate(clauses)
        THEN Returned(r, 400)
        ELSE [r EXCEPT !.pc = "update", !.now = now, !.item = clauses]

\* updateUserGet as it would be without the uniqueness query.
updateUserGetUnchecked(p) ==
    /\ At(p, "updateUser", "get")
    /\ LET r == inv[p]
       IN  IF GetItem(users, r.id) = NoItem
           THEN /\ inv' = [inv EXCEPT ![p] = Returned(r, 404)]
                /\ UNCHANGED clock
           ELSE \E now \in ClockReads :
                  /\ inv' = [inv EXCEPT ![p] = UpdateUserPrepare(r, now)]
                  /\ clock' = now
    /\ UNCHANGED <<tasks, pool, users, jobs, nextId, calls>>

\* The existence check answers.
updateUserGet(p) ==
    /\ At(p, "updateUser", "get")
    /\ LET r == inv[p]
           existingUser == GetItem(users, r.id)
       IN  IF existingUser = NoItem
           THEN /\ inv' = [inv EXCEPT ![p] = Returned(r, 404)]
                /\ UNCHANGED clock
           ELSE IF /\ ~Falsy(r.body, "username")
                   /\ (~Has(existingUser, "username") \/ r.body.username # existingUser.username)
                THEN /\ inv' = [inv EXCEPT ![p] = [r EXCEPT !.pc = "query"]]
                     /\ UNCHANGED clock
                ELSE \E now \in ClockReads :
                       /\ inv' = [inv EXCEPT ![p] = UpdateUserPrepare(r, now)]
                       /\ clock' = now
    /\ UNCHANGED <<tasks, pool, users, jobs, nextId, calls>>

\* The uniqueness query answers.
updateUserQuery(p) ==
    /\ At(p, "updateUser", "query")
    /\ LET r == inv[p]
       IN  IF QueryUsername(users, r.body.username) # {}
           THEN /\ inv' = [inv EXCEPT ![p] = Returned(r, 409)]
                /\ UNCHANGED clock
           ELSE \E now \in ClockReads :
                  /\ inv' = [inv EXCEPT ![p] = UpdateUserPrepare(r, now)]
                  /\ clock' = now
    /\ UNCHANGED <<tasks, pool, users, jobs, nextId, calls>>

\* The update answers.
updateUserUpdate(p) ==
    /\ At(p, "updateUser", "update")
    /\ LET r == inv[p]
       IN  IF IndexKeyRejected(r.item)
           THEN /\ inv' = [inv EXCEPT ![p] = Returned(r, 500)]
                /\ UNCHANGED users
           ELSE /\ users' = UpdateItem(users, "userId", r.id, r.item)
                /\ inv' = [inv EXCEPT ![p] = Returned(r, 200)]
    /\ UNCHANGED <<tasks, pool, jobs, clock, nextId, calls>>

updateUser(p) ==
    updateUserStart(p) \/ updateUserGet(p) \/ updateUserQuery(p) \/ updateUserUpdate(p)

(***************************************************************************)
(* deleteUser                                                              *)
(***************************************************************************)
deleteUserStart(p) ==
    /\ CanStart(p)
    /\ calls' = calls - 1
    /\ \E userId \in PathIds(users) :
         inv' = [inv EXCEPT ![p] = Started("deleteUser", userId, 0, EmptyObject, "get")]
    /\ UNCHANGED <<tasks, pool, users, jobs, clock, nextId>>

deleteUserGet(p) ==
    /\ At(p, "deleteUser", "get")
    /\ LET r == inv[p]
       IN  IF GetItem(users, r.id) = NoItem
           THEN inv' = [inv EXCEPT ![p] = Returned(r, 404)]
           ELSE inv' = [inv EXCEPT ![p] = [r EXCEPT !.pc = "delete"]]
    /\ UNCHANGED <<tasks, pool, users, jobs, clock, nextId, calls>>

deleteUserDelete(p) ==
    /\ At(p, "deleteUser", "delete")
    /\ users' = DeleteItem(users, inv[p].id)
    /\ inv' = [inv EXCEPT ![p] = Returned(inv[p], 200)]
    /\ UNCHANGED <<tasks, pool, jobs, clock, nextId, calls>>

deleteUser(p) == deleteUserStart(p) \/ deleteUserGet(p) \/ deleteUserDelete(p)

(***************************************************************************)
(* incrementUserView                                                       *)
(***************************************************************************)
\* The parameters are built, ':now' included, before the only request.
incrementUserViewStart(p) ==
    /\ CanStart(p)
    /\ calls' = calls - 1
    /\ \E userId \in PathIds(users), now \in ClockReads :
         /\ inv' = [inv EXCEPT ![p] =
                      [Started("incrementUserView", userId, 0, EmptyObject, "update")
                         EXCEPT !.now = now]]
         /\ clock' = now
    /\ UNCHANGED <<tasks, pool, users, jobs, nextId>>

\* The SET clauses of 'SET #view = if_not_exists(#view, :zero) + :inc, #updatedAt = :now'
IncrementViewClauses(table, key, now) ==
    [view |-> ViewPlusOne(table, key), updatedAt |-> now]

\* The update answers: it carries no ConditionExpression, and the response
\* holds the view of the item as written (ReturnValues: 'ALL_NEW').
incrementUserViewUpdate(p) ==
    /\ At(p, "incrementUserView", "update")
    /\ users' = UpdateItem(users, "userId", inv[p].id,
                           IncrementViewClauses(users, inv[p].id, inv[p].now))
    /\ inv' = [inv EXCEPT ![p] =
                 [Returned(inv[p], 200) EXCEPT !.item = [view |-> users'[inv[p].id].view]]]
    /\ UNCHANGED <<tasks, pool, jobs, clock, nextId, calls>>

incrementUserView(p) == incrementUserViewStart(p) \/ incrementUserViewUpdate(p)

(***************************************************************************)
(* addWorkExperience, addPortfolioItem, addConnection                      *)
(***************************************************************************)
\* The SET clauses of 'SET #attr = list_append(if_not_exists(#attr, :empty),
\* :elem), #updatedAt = :now'
AppendClauses(table, key, attr, elem, now) ==
    (attr :> ListAppend(table, key, attr, <<elem>>)) @@ [updatedAt |-> now]

AddWorkExperienceBodies ==
    {[workType |-> "film", brand |-> "acme"], [brand |-> "acme"]}

addWorkExperienceStart(p) ==
    /\ CanStart(p)
    /\ calls' = calls - 1
    /\ \E userId \in PathIds(users), body \in AddWorkExperienceBodies :
         IF validateRequiredFields(body, {"workType", "brand"}) # {}
         THEN inv' = [inv EXCEPT ![p] =
                        Returned(Started("addWorkExperience", userId, 0, body, "done"), 400)]
         ELSE inv' = [inv EXCEPT ![p] = Started("addWorkExperience", userId, 0, body, "get")]
    /\ UNCHANGED <<tasks, pool, users, jobs, clock, nextId>>

\* const newWork = { ... }
NewWork(body, workExperienceId, now) ==
    [id |-> workExperienceId,
     workType |-> body.workType,
     brand |-> body.brand,
     verified |-> IF Has(body, "verified") THEN body.verified ELSE FALSE,
     workLink |-> OrElse(body, "workLink", ""),
     createdAt |-> now]

\* The existence check answers; the entry and the parameters are built.
addWorkExperienceGet(p) ==
    /\ At(p, "addWorkExperience", "get")
    /\ LET r == inv[p]
       IN  IF GetItem(users, r.id) = NoItem
           THEN /\ inv' = [inv EXCEPT ![p] = Returned(r, 404)]
                /\ UNCHANGED <<tasks, pool, clock, nextId>>
           ELSE \E now \in ClockReads :
                  /\ inv' = [inv EXCEPT ![p] =
                               [r EXCEPT !.pc = "update", !.now = now, !.uid = nextId,
                                         !.item = NewWork(r.body, nextId, now)]]
                  /\ nextId' = nextId + 1
                  /\ clock' = now
    /\ UNCHANGED <<tasks, pool, users, jobs, calls>>

addWorkExperienceUpdate(p) ==
    /\ At(p, "addWorkExperience", "update")
    /\ LET r == inv[p]
       IN  users' = UpdateItem(users, "userId", r.id,
                               AppendClauses(users, r.id, "workExperience", r.item, r.now))
    /\ inv' = [inv EXCEPT ![p] = Returned(inv[p], 201)]
    /\ UNCHANGED <<tasks, pool, jobs, clock, nextId, calls>>

addWorkExperience(p) ==
    addWorkExperienceStart(p) \/ addWorkExperienceGet(p) \/ addWorkExperienceUpdate(p)

AddPortfolioItemBodies ==
    {[url |-> "http://p", type |-> "image"], [type |-> "image"]}

addPortfolioItemStart(p) ==
    /\ CanStart(p)
    /\ calls' = calls - 1
    /\ \E userId \in PathIds(users), body \in AddPortfolioItemBodies :
         IF validateRequiredFields(body, {"url", "type"}) # {}
         THEN inv' = [inv EXCEPT ![p] =
                        Returned(Started("addPortfolioItem", userId, 0, body, "done"), 400)]
         ELSE inv' = [inv EXCEPT ![p] = Started("addPortfolioItem", userId, 0, body, "get")]
    /\ UNCHANGED <<tasks, pool, users, jobs, clock, nextId>>

\* const newPortfolio = { ... }
NewPortfolio(body, portfolioId, now) ==
    [id |-> portfolioId,
     url |-> body.url,
     type |-> body.type,
     selected |-> IF Has(body, "selected") THEN body.selected ELSE FALSE,
     uploadedAt |-> now]

addPortfolioItemGet(p) ==
    /\ At(p, "addPortfolioItem", "get")
    /\ LET r == inv[p]
       IN  IF GetItem(users, r.id) = NoItem
           THEN /\ inv' = [inv EXCEPT ![p] = Returned(r, 404)]
                /\ UNCHANGED <<tasks, pool, clock, nextId>>
           ELSE \E now \in ClockReads :
                  /\ inv' = [inv EXCEPT ![p] =
                               [r EXCEPT !.pc = "update", !.now = now, !.uid = nextId,
                                         !.item = NewPortfolio(r.body, nextId, now)]]
                  /\ nextId' = nextId + 1
                  /\ clock' = now
    /\ UNCHANGED <<tasks, pool, users, jobs, calls>>

addPortfolioItemUpdate(p) ==
    /\ At(p, "addPortfolioItem", "update")
    /\ LET r == inv[p]
       IN  users' = UpdateItem(users, "userId", r.id,
                               AppendClauses(users, r.id, "portfolio", r.item, r.now))
    /\ inv' = [inv EXCEPT ![p] = Returned(inv[p], 201)]
    /\ UNCHANGED <<tasks, pool, jobs, clock, nextId, calls>>

addPortfolioItem(p) ==
    addPortfolioItemStart(p) \/ addPortfolioItemGet(p) \/ addPortfolioItemUpdate(p)

AddConnectionBodies ==
    {[senderId |-> 1, receiverId |-> 0], [senderId |-> 1]}

addConnectionStart(p) ==
    /\ CanStart(p)
    /\ calls' = calls - 1
    /\ \E userId \in PathIds(users), body \in AddConnectionBodies :
         IF validateRequiredFields(body, {"senderId", "receiverId"}) # {}
         THEN inv' = [inv EXCEPT ![p] =
                        Returned(Started("addConnection", userId, 0, body, "done"), 400)]
         ELSE inv' = [inv EXCEPT ![p] = Started("addConnection", userId, 0, body, "get")]
    /\ UNCHANGED <<tasks, pool, users, jobs, clock, nextId>>

\* const newConnection = { ... }: connectionId and chatId are two uuids
NewConnection(body, connectionId, chatId, now) ==
    [connectionId |-> connectionId,
     senderId |-> body.senderId,
     receiverId |-> body.receiverId,
     chatId |-> chatId,
     connectionStatus |-> "pending",
     connectedAt |-> now]

addConnectionGet(p) ==
    /\ At(p, "addConnection", "get")
    /\ LET r == inv[p]
       IN  IF GetItem(users, r.id) = NoItem
           THEN /\ inv' = [inv EXCEPT ![p] = Returned(r, 404)]
                /\ UNCHANGED <<tasks, pool, clock, nextId>>
           ELSE \E now \in ClockReads :
                  /\ inv' = [inv EXCEPT ![p] =
                               [r EXCEPT !.pc = "update", !.now = now, !.uid = nextId,
                                         !.item = NewConnection(r.body, nextId, nextId + 1, now)]]
                  /\ nextId' = nextId + 2
                  /\ clock' = now
    /\ UNCHANGED <<tasks, pool, users, jobs, calls>>

\* addConnectionUpdate as it would be if the connection were also appended to
\* the record of the sender.
addConnectionUpdateBothEnds(p) ==
    /\ At(p, "addConnection", "update")
    /\ LET r == inv[p]
           own == UpdateItem(users, "userId", r.id,
                             AppendClauses(users, r.id, "connections", r.item, r.now))
       IN  users' = UpdateItem(own, "userId", r.body.senderId,
                               AppendClauses(own, r.body.senderId, "connections",
                                             r.item, r.now))
    /\ inv' = [inv EXCEPT ![p] = Returned(inv[p], 201)]
    /\ UNCHANGED <<tasks, pool, jobs, clock, nextId, calls>>

addConnectionUpdate(p) ==
    /\ At(p, "addConnection", "update")
    /\ LET r == inv[p]
       IN  users' = UpdateItem(users, "userId", r.id,
                               AppendClauses(users, r.id, "connections", r.item, r.now))
    /\ inv' = [inv EXCEPT ![p] = Returned(inv[p], 201)]
    /\ UNCHANGED <<tasks, pool, jobs, clock, nextId, calls>>

addConnection(p) ==
    addConnectionStart(p) \/ addConnectionGet(p) \/ addConnectionUpdate(p)

(***************************************************************************)
(* createJob                                                               *)
(***************************************************************************)
validCategories ==
    {"Acting", "Singing", "Dancing", "Modeling", "Writing", "Editing",
     "Photography", "Makeup", "Voice Acting", "Comedy", "Production", "Design"}

validJobTypes == {"Online", "Offline"}

CreateJobBodies ==
    {[userId |-> 0, jobTitle |-> "lead", jobDescription |-> "d",
      jobCategory |-> "Acting", jobType |-> "Online",
      view |-> 7, verified |-> TRUE, appliedBy |-> <<[userId |-> 1]>>,
      createdAt |-> 5, updatedAt |-> 6],
     [userId |-> 0, jobTitle |-> "lead", jobDescription |-> "d",
      jobCategory |-> "Juggling", jobType |-> "Online"],
     [userId |-> 0, jobTitle |-> "lead", jobDescription |-> "d",
      jobCategory |-> "Acting", jobType |-> "Hybrid"],
     [userId |-> 0, jobDescription |-> "d",
      jobCategory |-> "Acting", jobType |-> "Online"]}

\* The destructuring default `field = []`: used when the body has no such key.
Default(body, field, dflt) == IF Has(body, field) THEN body[field] ELSE dflt

\* const job = { ... }
NewJob(body, jobId, now) ==
    [jobId |-> jobId,
     userId |-> body.userId,
     jobTitle |-> body.jobTitle,
     jobDescription |-> body.jobDescription,
     jobCategory |-> body.jobCategory,
     jobType |-> body.jobType,
     jobLocation |-> Default(body, "jobLocation", << >>),
     tags |-> Default(body, "tags", << >>),
     view |-> 0,
     verified |-> FALSE,
     isExpired |-> FALSE,
     isCollab |-> IF Has(body, "isCollab") THEN body.isCollab ELSE FALSE,
     isWishlisted |-> FALSE,
     imageUrl |-> OrElse(body, "imageUrl", ""),
     expiryDate |-> OrElse(body, "expiryDate", Null),
     applicationStatus |-> 0,
     appliedBy |-> << >>,
     recruiter |-> Default(body, "recruiter", << >>),
     requirements |-> Default(body, "requirements", << >>),
     documents |-> Default(body, "documents", << >>),
     createdAt |-> now,
     updatedAt |-> now]

\* Up to the put: validation, jobId, now and the job object.
createJobStart(p) ==
    /\ CanStart(p)
    /\ calls' = calls - 1
    /\ \E body \in CreateJobBodies :
         IF \/ validateRequiredFields(body, {"userId", "jobTitle", "jobDescription",
                                             "jobCategory", "jobType"}) # {}
            \/ body.jobCategory \notin validCategories
            \/ body.jobType \notin validJobTypes
         THEN /\ inv' = [inv EXCEPT ![p] = Returned(Started("createJob", 0, 0, body, "done"), 400)]
              /\ UNCHANGED <<tasks, pool, clock, nextId>>
         ELSE \E now \in ClockReads :
                /\ inv' = [inv EXCEPT ![p] =
                             [Started("createJob", 0, 0, body, "put")
                                EXCEPT !.uid = nextId, !.now = now,
                                       !.item = NewJob(body, nextId, now)]]
                /\ nextId' = nextId + 1
                /\ clock' = now
    /\ UNCHANGED <<tasks, pool, users, jobs>>

\* The conditional put answers.
createJobPut(p) ==
    /\ At(p, "createJob", "put")
    /\ LET r == inv[p]
       IN  IF r.uid \in DOMAIN jobs
           THEN /\ inv' = [inv EXCEPT ![p] = Returned(r, 409)]
                /\ UNCHANGED jobs
           ELSE /\ jobs' = PutItem(jobs, r.uid, r.item)
                /\ inv' = [inv EXCEPT ![p] = Returned(r, 201)]
    /\ UNCHANGED <<tasks, pool, users, clock, nextId, calls>>

createJob(p) == createJobStart(p) \/ createJobPut(p)

(***************************************************************************)
(* updateJob                                                               *)
(***************************************************************************)
UpdateJobBodies ==
    {EmptyObject,
     [jobId |-> 0],
     [jobTitle |-> "extra"],
     [appliedBy |-> << >>],
     [jobCategory |-> "Juggling", jobType |-> "Hybrid"]}

jobUpdateableFields ==
    {"jobTitle", "jobDescription", "jobCategory", "jobType", "jobLocation",
     "tags", "view", "verified", "isExpired", "isCollab", "isWishlisted",
     "imageUrl", "expiryDate", "applicationStatus", "appliedBy", "recruiter",
     "requirements", "documents"}

updateJobStart(p) ==
    /\ CanStart(p)
    /\ calls' = calls - 1
    /\ \E jobId \in PathIds(jobs), body \in UpdateJobBodies :
         inv' = [inv EXCEPT ![p] = Started("updateJob", jobId, 0, body, "get")]
    /\ UNCHANGED <<tasks, pool, users, jobs, clock, nextId>>

\* The existence check answers; the clauses are built.
updateJobGet(p) ==
    /\ At(p, "updateJob", "get")
    /\ LET r == inv[p]
       IN  IF GetItem(jobs, r.id) = NoItem
           THEN /\ inv' = [inv EXCEPT ![p] = Returned(r, 404)]
                /\ UNCHANGED clock
           ELSE \E now \in ClockReads :
                  /\ LET clauses == UpdateClauses(r.body, jobUpdateableFields, now)
                     IN  inv' = [inv EXCEPT ![p] =
                                   IF NoFieldsToUpdate(clauses)
                                   THEN Returned(r, 400)
                                   ELSE [r EXCEPT !.pc = "update", !.now = now,
                                                  !.item = clauses]]
                  /\ clock' = now
    /\ UNCHANGED <<tasks, pool, users, jobs, nextId, calls>>

updateJobUpdate(p) ==
    /\ At(p, "updateJob", "update")
    /\ jobs' = UpdateItem(jobs, "jobId", inv[p].id, inv[p].item)
    /\ inv' = [inv EXCEPT ![p] = Returned(inv[p], 200)]
    /\ UNCHANGED <<tasks, pool, users, clock, nextId, calls>>

updateJob(p) == updateJobStart(p) \/ updateJobGet(p) \/ updateJobUpdate(p)

(***************************************************************************)
(* deleteJob                                                               *)
(***************************************************************************)
deleteJobStart(p) ==
    /\ CanStart(p)
    /\ calls' = calls - 1
    /\ \E jobId \in PathIds(jobs) :
         inv' = [inv EXCEPT ![p] = Started("deleteJob", jobId, 0, EmptyObject, "get")]
    /\ UNCHANGED <<tasks, pool, users, jobs, clock, nextId>>

deleteJobGet(p) ==
    /\ At(p, "deleteJob", "get")
    /\ LET r == inv[p]
       IN  IF GetItem(jobs, r.id) = NoItem
           THEN inv' = [inv EXCEPT ![p] = Returned(r, 404)]
           ELSE inv' = [inv EXCEPT ![p] = [r EXCEPT !.pc = "delete"]]
    /\ UNCHANGED <<tasks, pool, users, jobs, clock, nextId, calls>>

deleteJobDelete(p) ==
    /\ At(p, "deleteJob", "delete")
    /\ jobs' = DeleteItem(jobs, inv[p].id)
    /\ inv' = [inv EXCEPT ![p] = Returned(inv[p], 200)]
    /\ UNCHANGED <<tasks, pool, users, clock, nextId, calls>>

deleteJob(p) == deleteJobStart(p) \/ deleteJobGet(p) \/ deleteJobDelete(p)

(***************************************************************************)
(* applyForJob                                                             *)
(***************************************************************************)
ApplyForJobBodies == {[userId |-> u] : u \in Applicants} \cup {EmptyObject}

applyForJobStart(p) ==
    /\ CanStart(p)
    /\ calls' = calls - 1
    /\ \E jobId \in PathIds(jobs), body \in ApplyForJobBodies :
         IF validateRequiredFields(body, {"userId"}) # {}
         THEN inv' = [inv EXCEPT ![p] =
                        Returned(Started("applyForJob", jobId, 0, body, "done"), 400)]
         ELSE inv' = [inv EXCEPT ![p] = Started("applyForJob", jobId, 0, body, "get")]
    /\ UNCHANGED <<tasks, pool, users, jobs, clock, nextId>>

\* alreadyApplied as it would be if the scan compared app.appId.
alreadyAppliedByAppId(item, userId) ==
    /\ Has(item, "appliedBy")
    /\ \E i \in 1..Len(item.appliedBy) : item.appliedBy[i].appId = userId

\* existingJob.Item.appliedBy?.some(app => app.userId === userId)
alreadyApplied(item, userId) ==
    /\ Has(item, "appliedBy")
    /\ \E i \in 1..Len(item.appliedBy) : item.appliedBy[i].userId = userId

\* const newApplication = { ... }
NewApplication(body, appId) ==
    [userId |-> body.userId, appId |-> appId, avatarUrl |-> OrElse(body, "avatarUrl", "")]

\* The read of the job answers; the linear scan runs on what was read.
applyForJobGet(p) ==
    /\ At(p, "applyForJob", "get")
    /\ LET r == inv[p]
           existingJob == GetItem(jobs, r.id)
       IN  IF existingJob = NoItem
           THEN /\ inv' = [inv EXCEPT ![p] = Returned(r, 404)]
                /\ UNCHANGED <<tasks, pool, clock, nextId>>
           ELSE IF alreadyApplied(existingJob, r.body.userId)
                THEN /\ inv' = [inv EXCEPT ![p] = Returned(r, 409)]
                     /\ UNCHANGED <<tasks, pool, clock, nextId>>
                ELSE \E now \in ClockReads :
                       /\ inv' = [inv EXCEPT ![p] =
                                    [r EXCEPT !.pc = "update", !.now = now, !.uid = nextId,
                                              !.item = NewApplication(r.body, nextId)]]
                       /\ nextId' = nextId + 1
                       /\ clock' = now
    /\ UNCHANGED <<tasks, pool, users, jobs, calls>>

applyForJobUpdate(p) ==
    /\ At(p, "applyForJob", "update")
    /\ LET r == inv[p]
       IN  jobs' = UpdateItem(jobs, "jobId", r.id,
                              AppendClauses(jobs, r.id, "appliedBy", r.item, r.now))
    /\ inv' = [inv EXCEPT ![p] = Returned(inv[p], 201)]
    /\ UNCHANGED <<tasks, pool, users, clock, nextId, calls>>

applyForJob(p) == applyForJobStart(p) \/ applyForJobGet(p) \/ applyForJobUpdate(p)

(***************************************************************************)
(* updateApplicationStatus                                                 *)
(***************************************************************************)
\* The status of a body, given by its JSON text: the numbers 1, 2 and 3, and
\* the string "2".
UpdateApplicationStatusBodies ==
    {[status |-> "1"], [status |-> "2"], [status |-> "3"], [status |-> "\"2\""]}

\* parseInt(status, 10) of the value with this JSON text: a string is read up
\* to its last leading digit.
ParseInt(text) ==
    CASE text = "1" -> 1
      [] text = "2" -> 2
      [] text = "3" -> 3
      [] text = "\"2\"" -> 2

updateApplicationStatusStart(p) ==
    /\ CanStart(p)
    /\ calls' = calls - 1
    /\ \E jobId \in PathIds(jobs), userId \in Applicants, body \in UpdateApplicationStatusBodies :
         IF ParseInt(body.status) \notin {1, 2}
         THEN inv' = [inv EXCEPT ![p] =
                        Returned(Started("updateApplicationStatus", jobId, userId, body, "done"), 400)]
         ELSE inv' = [inv EXCEPT ![p] =
                        Started("updateApplicationStatus", jobId, userId, body, "get")]
    /\ UNCHANGED <<tasks, pool, users, jobs, clock, nextId>>

\* appliedBy.findIndex(app => app.userId === userId), 0 for -1
findIndex(appliedBy, userId) ==
    LET hits == {i \in 1..Len(appliedBy) : appliedBy[i].userId = userId}
    IN  IF hits = {} THEN 0 ELSE CHOOSE i \in hits : \A j \in hits : i <= j

\* SetStatus as it would be if the element were replaced by a new object.
SetStatusReplacingElement(appliedBy, appIndex, status) ==
    [appliedBy EXCEPT ![appIndex] = [status |-> status]]

\* appliedBy[appIndex].status = status
SetStatus(appliedBy, appIndex, status) ==
    [appliedBy EXCEPT ![appIndex] = [status |-> status] @@ @]

\* The read of the job answers; the application is changed in the list read.
updateApplicationStatusGet(p) ==
    /\ At(p, "updateApplicationStatus", "get")
    /\ LET r == inv[p]
           job == GetItem(jobs, r.id)
           appliedBy == IF Has(job, "appliedBy") THEN job.appliedBy ELSE << >>
           appIndex == findIndex(appliedBy, r.arg)
       IN  IF job = NoItem \/ appIndex = 0
           THEN /\ inv' = [inv EXCEPT ![p] = Returned(r, 404)]
                /\ UNCHANGED clock
           ELSE \E now \in ClockReads :
                  /\ inv' = [inv EXCEPT ![p] =
                               [r EXCEPT !.pc = "update", !.now = now,
                                         !.item = SetStatus(appliedBy, appIndex, r.body.status)]]
                  /\ clock' = now
    /\ UNCHANGED <<tasks, pool, users, jobs, nextId, calls>>

\* updateApplicationStatusUpdate as it would be if the status were set in the
\* list that is stored at the time of the write.
updateApplicationStatusUpdateMerging(p) ==
    /\ At(p, "updateApplicationStatus", "update")
    /\ LET r == inv[p]
           stored == IF r.id \in DOMAIN jobs /\ Has(jobs[r.id], "appliedBy")
                     THEN jobs[r.id].appliedBy ELSE << >>
           appIndex == findIndex(stored, r.arg)
           merged == IF appIndex = 0 THEN stored
                     ELSE SetStatus(stored, appIndex, r.body.status)
       IN  jobs' = UpdateItem(jobs, "jobId", r.id, [appliedBy |-> merged, updatedAt |-> r.now])
    /\ inv' = [inv EXCEPT ![p] = Returned(inv[p], 200)]
    /\ UNCHANGED <<tasks, pool, users, clock, nextId, calls>>

\* The update answers: the whole list read is written back.
updateApplicationStatusUpdate(p) ==
    /\ At(p, "updateApplicationStatus", "update")
    /\ LET r == inv[p]
       IN  jobs' = UpdateItem(jobs, "jobId", r.id, [appliedBy |-> r.item, updatedAt |-> r.now])
    /\ inv' = [inv EXCEPT ![p] = Returned(inv[p], 200)]
    /\ UNCHANGED <<tasks, pool, users, clock, nextId, calls>>

updateApplicationStatus(p) ==
    \/ updateApplicationStatusStart(p)
    \/ updateApplicationStatusGet(p)
    \/ updateApplicationStatusUpdate(p)

(***************************************************************************)
(* incrementJobView                                                        *)
(***************************************************************************)
incrementJobViewStart(p) ==
    /\ CanStart(p)
    /\ calls' = calls - 1
    /\ \E jobId \in PathIds(jobs), now \in ClockReads :
         /\ inv' = [inv EXCEPT ![p] =
                      [Started("incrementJobView", jobId, 0, EmptyObject, "update")
                         EXCEPT !.now = now]]
         /\ clock' = now
    /\ UNCHANGED <<tasks, pool, users, jobs, nextId>>

incrementJobViewUpdate(p) ==
    /\ At(p, "incrementJobView", "update")
    /\ jobs' = UpdateItem(jobs, "jobId", inv[p].id,
                          IncrementViewClauses(jobs, inv[p].id, inv[p].now))
    /\ inv' = [inv EXCEPT ![p] =
                 [Returned(inv[p], 200) EXCEPT !.item = [view |-> jobs'[inv[p].id].view]]]
    /\ UNCHANGED <<tasks, pool, users, clock, nextId, calls>>

incrementJobView(p) == incrementJobViewStart(p) \/ incrementJobViewUpdate(p)

(***************************************************************************)
(* addDocument, removeDocument                                             *)
(***************************************************************************)
validTypes == {"pdf", "image", "video", "script"}

AddDocumentBodies ==
    {[url |-> "http://d", type |-> "pdf"], [url |-> "http://d", type |-> "exe"],
     [type |-> "pdf"]}

addDocumentStart(p) ==
    /\ CanStart(p)
    /\ calls' = calls - 1
    /\ \E jobId \in PathIds(jobs), body \in AddDocumentBodies :
         IF \/ validateRequiredFields(body, {"url", "type"}) # {}
            \/ body.type \notin validTypes
         THEN inv' = [inv EXCEPT ![p] =
                        Returned(Started("addDocument", jobId, 0, body, "done"), 400)]
         ELSE inv' = [inv EXCEPT ![p] = Started("addDocument", jobId, 0, body, "get")]
    /\ UNCHANGED <<tasks, pool, users, jobs, clock, nextId>>

\* const newDocument = { ... }
NewDocument(body, docId) == [id |-> docId, url |-> body.url, type |-> body.type]

addDocumentGet(p) ==
    /\ At(p, "addDocument", "get")
    /\ LET r == inv[p]
       IN  IF GetItem(jobs, r.id) = NoItem
           THEN /\ inv' = [inv EXCEPT ![p] = Returned(r, 404)]
                /\ UNCHANGED <<tasks, pool, clock, nextId>>
           ELSE \E now \in ClockReads :
                  /\ inv' = [inv EXCEPT ![p] =
                               [r EXCEPT !.pc = "update", !.now = now, !.uid = nextId,
                                         !.item = NewDocument(r.body, nextId)]]
                  /\ nextId' = nextId + 1
                  /\ clock' = now
    /\ UNCHANGED <<tasks, pool, users, jobs, calls>>

addDocumentUpdate(p) ==
    /\ At(p, "addDocument", "update")
    /\ LET r == inv[p]
       IN  jobs' = UpdateItem(jobs, "jobId", r.id,
                              AppendClauses(jobs, r.id, "documents", r.item, r.now))
    /\ inv' = [inv EXCEPT ![p] = Returned(inv[p], 201)]
    /\ UNCHANGED <<tasks, pool, users, clock, nextId, calls>>

addDocument(p) == addDocumentStart(p) \/ addDocumentGet(p) \/ addDocumentUpdate(p)

removeDocumentStart(p) ==
    /\ CanStart(p)
    /\ calls' = calls - 1
    /\ \E jobId \in PathIds(jobs), docId \in DocIds :
         inv' = [inv EXCEPT ![p] = Started("removeDocument", jobId, docId, EmptyObject, "get")]
    /\ UNCHANGED <<tasks, pool, users, jobs, clock, nextId>>

\* (job.Item.documents || []).filter(doc => doc.id !== docId)
FilterOut(item, docId) ==
    IF Has(item, "documents")
    THEN SelectSeq(item.documents, LAMBDA doc : doc.id # docId)
    ELSE << >>

\* documents.length === job.Item.documents?.length
SameLength(documents, item) ==
    Has(item, "documents") /\ Len(documents) = Len(item.documents)

\* The read of the job answers; the list is rebuilt from what was read.
removeDocumentGet(p) ==
    /\ At(p, "removeDocument", "get")
    /\ LET r == inv[p]
           job == GetItem(jobs, r.id)
       IN  IF job = NoItem \/ SameLength(FilterOut(job, r.arg), job)
           THEN /\ inv' = [inv EXCEPT ![p] = Returned(r, 404)]
                /\ UNCHANGED clock
           ELSE \E now \in ClockReads :
                  /\ inv' = [inv EXCEPT ![p] =
                               [r EXCEPT !.pc = "update", !.now = now,
                                         !.item = FilterOut(job, r.arg)]]
                  /\ clock' = now
    /\ UNCHANGED <<tasks, pool, users, jobs, nextId, calls>>

removeDocumentUpdate(p) ==
    /\ At(p, "removeDocument", "update")
    /\ LET r == inv[p]
       IN  jobs' = UpdateItem(jobs, "jobId", r.id, [documents |-> r.item, updatedAt |-> r.now])
    /\ inv' = [inv EXCEPT ![p] = Returned(inv[p], 200)]
    /\ UNCHANGED <<tasks, pool, users, clock, nextId, calls>>

removeDocument(p) == removeDocumentStart(p) \/ removeDocumentGet(p) \/ removeDocumentUpdate(p)

(***************************************************************************)
(* Continuation tokens and scans.                                          *)
(***************************************************************************)
\* A string or a Buffer is a sequence of bytes; a base64 string is a sequence
\* of indices into the base64 alphabet, Pad standing for '='.
Pad == 64

\* The decimal digits of an identifier, as bytes.
RECURSIVE Digits(_)
Digits(n) == IF n < 10 THEN <<48 + n>> ELSE Digits(n \div 10) \o <<48 + (n % 10)>>

\* The number that a sequence of digit bytes spells.
RECURSIVE FromDigits(_)
FromDigits(b) ==
    IF Len(b) = 0 THEN 0
    ELSE 10 * FromDigits(SubSeq(b, 1, Len(b) - 1)) + (b[Len(b)] - 48)

\* The name of the key attribute of each table, as bytes.
KeyNameBytes(keyName) ==
    CASE keyName = "userId" -> <<117, 115, 101, 114, 73, 100>>
      [] keyName = "jobId" -> <<106, 111, 98, 73, 100>>

\* The key of a table item: { userId: '...' } or { jobId: '...' }.
Key(keyName, id) == (keyName :> id)

\* JSON.stringify(result.LastEvaluatedKey): {"userId":"..."}
JSONStringify(key) ==
    LET keyName == CHOOSE f \in DOMAIN key : TRUE
    IN  <<123, 34>> \o KeyNameBytes(keyName) \o <<34, 58, 34>>
          \o Digits(key[keyName]) \o <<34, 125>>

\* Buffer.from(bytes).toString('base64')
RECURSIVE toBase64(_)
toBase64(b) ==
    IF Len(b) = 0 THEN << >>
    ELSE IF Len(b) = 1
         THEN <<b[1] \div 4, (b[1] % 4) * 16, Pad, Pad>>
    ELSE IF Len(b) = 2
         THEN <<b[1] \div 4, (b[1] % 4) * 16 + (b[2] \div 16), (b[2] % 16) * 4, Pad>>
    ELSE <<b[1] \div 4,
           (b[1] % 4) * 16 + (b[2] \div 16),
           (b[2] % 16) * 4 + (b[3] \div 64),
           b[3] % 64>> \o toBase64(SubSeq(b, 4, Len(b)))

\* fromBase64 as it would be if a group that holds padding gave no byte.
RECURSIVE fromBase64FullGroups(_)
fromBase64FullGroups(s) ==
    IF Len(s) < 4 \/ Pad \in {s[1], s[2], s[3], s[4]} THEN << >>
    ELSE <<s[1] * 4 + (s[2] \div 16),
           (s[2] % 16) * 16 + (s[3] \div 4),
           (s[3] % 4) * 64 + s[4]>> \o fromBase64FullGroups(SubSeq(s, 5, Len(s)))

\* Buffer.from(lastKey, 'base64'): the bytes of each group of four, up to the
\* padding; an incomplete last group gives no byte.
RECURSIVE fromBase64(_)
fromBase64(s) ==
    IF Len(s) < 2 \/ s[1] = Pad \/ s[2] = Pad THEN << >>
    ELSE LET b1 == s[1] * 4 + (s[2] \div 16)
         IN  IF Len(s) < 3 \/ s[3] = Pad THEN <<b1>>
             ELSE LET b2 == (s[2] % 16) * 16 + (s[3] \div 4)
                  IN  IF Len(s) < 4 \/ s[4] = Pad THEN <<b1, b2>>
                      ELSE <<b1, b2, (s[3] % 4) * 64 + s[4]>>
                             \o fromBase64(SubSeq(s, 5, Len(s)))

\* JSON.parse throws on a text that is not JSON.
SyntaxError == [error |-> "SyntaxError"]

\* JSON.parse(text) of the text of a key object.
JSONParse(b) ==
    LET names == {n \in {"userId", "jobId"} :
                    LET h == <<123, 34>> \o KeyNameBytes(n) \o <<34, 58, 34>>
                    IN  /\ Len(b) > Len(h) + 2
                        /\ SubSeq(b, 1, Len(h)) = h
                        /\ SubSeq(b, Len(b) - 1, Len(b)) = <<34, 125>>
                        /\ \A i \in (Len(h) + 1)..(Len(b) - 2) : b[i] \in 48..57}
    IN  IF names = {} THEN SyntaxError
        ELSE LET n == CHOOSE x \in names : TRUE
                 h == 5 + Len(KeyNameBytes(n))
             IN  Key(n, FromDigits(SubSeq(b, h + 1, Len(b) - 2)))

\* lastKey of the response:
\* Buffer.from(JSON.stringify(result.LastEvaluatedKey)).toString('base64')
EncodeLastKey(lastEvaluatedKey) == toBase64(JSONStringify(lastEvaluatedKey))

\* params.ExclusiveStartKey = JSON.parse(Buffer.from(lastKey, 'base64').toString())
DecodeLastKey(lastKey) == JSONParse(fromBase64(lastKey))

\* The store scans a table in the order of a hash of the partition key, which
\* is not the order of the keys.
KeyHash(k) == IF k % 2 = 1 THEN 0 - k ELSE k

RECURSIVE ScanOrder(_)
ScanOrder(keys) ==
    IF keys = {} THEN << >>
    ELSE LET first == CHOOSE k \in keys : \A j \in keys : KeyHash(k) <= KeyHash(j)
         IN  <<first>> \o ScanOrder(keys \ {first})

\* The substrings of a stored string, among the strings the clients send.
Substrings(s) == IF s = "lead" THEN {"lead", "lea"} ELSE {s}

\* FilterExpression 'jobCategory = :category' or 'contains(jobTitle, :q)', when
\* the parameters hold one.
Passes(item, params) ==
    /\ Has(params, "category")
       => (Has(item, "jobCategory") /\ item.jobCategory = params.category)
    /\ Has(params, "title")
       => (Has(item, "jobTitle") /\ params.title \in Substrings(item.jobTitle))

\* Scan as it would be if the store read from the start key on, the item of
\* the start key included.
ScanFromStartKey(table, keyName, params) ==
    LET order == ScanOrder(DOMAIN table)
        rest == IF Has(params, "ExclusiveStartKey")
                THEN SelectSeq(order, LAMBDA k :
                         KeyHash(k) >= KeyHash(params.ExclusiveStartKey[keyName]))
                ELSE order
        read == SubSeq(rest, 1, IF Len(rest) < params.Limit THEN Len(rest) ELSE params.Limit)
        found == SelectSeq(read, LAMBDA k : Passes(table[k], params))
        Items == [i \in 1..Len(found) |-> table[found[i]]]
    IN  IF Len(rest) >= params.Limit
        THEN [Items |-> Items, LastEvaluatedKey |-> Key(keyName, read[Len(read)])]
        ELSE [Items |-> Items]

\* scan({Limit, ExclusiveStartKey, FilterExpression}): the store reads up to
\* Limit items after the start key, in scan order, then drops those the filter
\* rejects; it returns the key of the last item read when it stopped at Limit.
Scan(table, keyName, params) ==
    LET order == ScanOrder(DOMAIN table)
        rest == IF Has(params, "ExclusiveStartKey")
                THEN SelectSeq(order, LAMBDA k :
                         KeyHash(k) > KeyHash(params.ExclusiveStartKey[keyName]))
                ELSE order
        read == SubSeq(rest, 1, IF Len(rest) < params.Limit THEN Len(rest) ELSE params.Limit)
        found == SelectSeq(read, LAMBDA k : Passes(table[k], params))
        Items == [i \in 1..Len(found) |-> table[found[i]]]
    IN  IF Len(rest) >= params.Limit
        THEN [Items |-> Items, LastEvaluatedKey |-> Key(keyName, read[Len(read)])]
        ELSE [Items |-> Items]

\* The store rejects a start key that is not a key of the table.
StartKeyRejected(keyName, params) ==
    Has(params, "ExclusiveStartKey") /\ DOMAIN params.ExclusiveStartKey # {keyName}

(***************************************************************************)
(* listUsers, listJobs                                                     *)
(***************************************************************************)
\* lastKey: null of a response.
NoLastKey == << >>

\* The page sizes a client sends as `limit`.
PageSizes == {1, 2}

\* A lastKey that is not a token the API issued for the table: not the base64
\* of a JSON text, or the token of a key of the other table.
ForgedLastKeys(op) ==
    {<<1, 2, 3>>,
     EncodeLastKey(Key(IF op = "listUsers" THEN "jobId" ELSE "userId", 0))}

ListOps == {"listUsers", "listJobs"}

\* The client of instance p is in the middle of a listing: a page is being
\* read, or the last response carried a lastKey.
Paging(p) ==
    /\ inv[p].op \in ListOps
    /\ \/ inv[p].pc # "done"
       \/ inv[p].status = 200 /\ inv[p].item.lastKey # NoLastKey

\* The query strings of a first page.
ListQueries(op) ==
    {[limit |-> n] : n \in PageSizes}
      \cup {[limit |-> n, lastKey |-> t] : n \in PageSizes, t \in ForgedLastKeys(op)}
      \cup (IF op = "listJobs"
            THEN {[limit |-> n, category |-> "Acting"] : n \in PageSizes}
            ELSE {})

\* The query string of the next page of the listing of instance p: the same
\* query with the lastKey of the last response.
NextQuery(p) ==
    [f \in DOMAIN inv[p].body \cup {"lastKey"} |->
        IF f = "lastKey" THEN inv[p].item.lastKey ELSE inv[p].body[f]]

\* The parameters of the scan: Limit, the filter and the decoded start key.
ScanParams(query) ==
    [f \in (DOMAIN query \ {"limit", "lastKey"})
             \cup {"Limit"}
             \cup (IF Has(query, "lastKey") THEN {"ExclusiveStartKey"} ELSE {}) |->
        IF f = "Limit" THEN query.limit
        ELSE IF f = "ExclusiveStartKey" THEN DecodeLastKey(query.lastKey)
        ELSE query[f]]

\* The handler up to the scan, on a listing that has collected the keys
\* `collected`: JSON.parse throws on a lastKey that holds no JSON text.
ListStarted(op, query, collected) ==
    LET r == [Started(op, 0, 0, query, "scan") EXCEPT !.arg = collected]
    IN  IF Has(query, "lastKey") /\ DecodeLastKey(query.lastKey) = SyntaxError
        THEN Returned(r, 500)
        ELSE [r EXCEPT !.item = ScanParams(query)]

\* Up to the scan. The event is the first page of a listing, or the next page
\* of the listing of this client.
listStart(p, op) ==
    /\ inv[p].pc = "done"
    /\ \/ /\ ~Paging(p)
          /\ calls > 0
          /\ calls' = calls - 1
          /\ \E query \in ListQueries(op) :
               inv' = [inv EXCEPT ![p] = ListStarted(op, query, << >>)]
       \/ /\ Paging(p)
          /\ inv[p].op = op
          /\ calls' = calls
          /\ inv' = [inv EXCEPT ![p] = ListStarted(op, NextQuery(p), inv[p].arg)]
    /\ UNCHANGED <<tasks, pool, users, jobs, clock, nextId>>

\* The scan answers; the response is built.
listScan(p, op, table, keyName) ==
    /\ At(p, op, "scan")
    /\ LET r == inv[p]
           result == Scan(table, keyName, r.item)
       IN  IF StartKeyRejected(keyName, r.item)
           THEN inv' = [inv EXCEPT ![p] = Returned(r, 500)]
           ELSE inv' = [inv EXCEPT ![p] =
                   [r EXCEPT !.pc = "done", !.status = 200,
                             !.arg = @ \o [i \in 1..Len(result.Items) |->
                                             result.Items[i][keyName]],
                             !.item = [items |-> result.Items,
                                       count |-> Len(result.Items),
                                       lastKey |-> IF Has(result, "LastEvaluatedKey")
                                                   THEN EncodeLastKey(result.LastEvaluatedKey)
                                                   ELSE NoLastKey]]]
    /\ UNCHANGED <<tasks, pool, users, jobs, clock, nextId, calls>>

listUsersStart(p) == listStart(p, "listUsers")

listUsersScan(p) == listScan(p, "listUsers", users, "userId")

listUsers(p) == listUsersStart(p) \/ listUsersScan(p)

listJobsStart(p) == listStart(p, "listJobs")

listJobsScan(p) == listScan(p, "listJobs", jobs, "jobId")

listJobs(p) == listJobsStart(p) \/ listJobsScan(p)

(***************************************************************************)
(* getUserApplications.                                                    *)
(***************************************************************************)
\* The DynamoDB type of an element of appliedBy: the handlers store
\* application objects, which are maps (M).
ElementType(app) == "M"

\* contains(#attr, :operand) on a list: some element has the type and the
\* value of the operand.
Contains(item, attr, type, operand) ==
    /\ Has(item, attr)
    /\ \E i \in 1..Len(item[attr]) :
         ElementType(item[attr][i]) = type /\ item[attr][i] = operand

\* The applications of the user in the jobs read, each with the jobId of its
\* job, in the order of the jobs.
RECURSIVE UserApplications(_, _)
UserApplications(Items, userId) ==
    IF Items = << >> THEN << >>
    ELSE LET job == Head(Items)
             userApps == SelectSeq(OrElse(job, "appliedBy", << >>),
                                   LAMBDA app : app.userId = userId)
         IN  [i \in 1..Len(userApps) |-> userApps[i] @@ [jobId |-> job.jobId]]
               \o UserApplications(Tail(Items), userId)

getUserApplicationsStart(p) ==
    /\ CanStart(p)
    /\ calls' = calls - 1
    /\ \E userId \in Applicants :
         inv' = [inv EXCEPT ![p] = Started("getUserApplications", userId, 0, EmptyObject, "scan")]
    /\ UNCHANGED <<tasks, pool, users, jobs, clock, nextId>>

\* scan with FilterExpression 'contains(#appliedBy, :userId)', :userId a string
getUserApplicationsScan(p) ==
    /\ At(p, "getUserApplications", "scan")
    /\ LET r == inv[p]
           found == SelectSeq(ScanOrder(DOMAIN jobs),
                              LAMBDA k : Contains(jobs[k], "appliedBy", "S", r.id))
           Items == [i \in 1..Len(found) |-> jobs[found[i]]]
           userApplications == UserApplications(Items, r.id)
       IN  inv' = [inv EXCEPT ![p] =
                     [Returned(r, 200) EXCEPT
                        !.item = [applications |-> userApplications,
                                  count |-> Len(userApplications)]]]
    /\ UNCHANGED <<tasks, pool, users, jobs, clock, nextId, calls>>

getUserApplications(p) == getUserApplicationsStart(p) \/ getUserApplicationsScan(p)

(***************************************************************************)
(* searchJobs.                                                             *)
(***************************************************************************)
\* event.queryStringParameters: q, type (default 'category'), limit
\* (default 10).
SearchQueries ==
    {[q |-> "Acting", limit |-> n] : n \in PageSizes}
      \cup {[q |-> "lea", type |-> "title", limit |-> n] : n \in PageSizes}
      \cup {[q |-> "Acting"], [q |-> "Acting", type |-> "salary"], EmptyObject}

SearchType(query) == OrElse(query, "type", "category")

\* The parameters of the scan: FilterExpression and its value, and Limit.
SearchParams(query) ==
    IF SearchType(query) = "category"
    THEN [category |-> query.q, Limit |-> OrElse(query, "limit", 10)]
    ELSE [title |-> query.q, Limit |-> OrElse(query, "limit", 10)]

searchJobsStart(p) ==
    /\ CanStart(p)
    /\ calls' = calls - 1
    /\ \E query \in SearchQueries :
         inv' = [inv EXCEPT ![p] =
                   IF ~Has(query, "q") \/ SearchType(query) \notin {"category", "title"}
                   THEN Returned(Started("searchJobs", 0, 0, query, "done"), 400)
                   ELSE Started("searchJobs", 0, 0, query, "scan")]
    /\ UNCHANGED <<tasks, pool, users, jobs, clock, nextId>>

\* One scan; the response holds the items of that page.
searchJobsScan(p) ==
    /\ At(p, "searchJobs", "scan")
    /\ LET r == inv[p]
           result == Scan(jobs, "jobId", SearchParams(r.body))
       IN  inv' = [inv EXCEPT ![p] =
                     [Returned(r, 200) EXCEPT
                        !.item = [items |-> result.Items, count |-> Len(result.Items)]]]
    /\ UNCHANGED <<tasks, pool, users, jobs, clock, nextId, calls>>

searchJobs(p) == searchJobsStart(p) \/ searchJobsScan(p)

(***************************************************************************)
(* The Cognito user pool.                                                  *)
(***************************************************************************)
\* The strings that emailRegex accepts, among those the clients send.
WellFormedEmails == {"a@x.io"}

\* The strings that phoneRegex accepts once spaces and dashes are removed,
\* and those among them that the pool accepts as they are sent.
WellFormedPhones == {"+911234567890", "+91 12345 67890"}

PoolPhones == {"+911234567890"}

\* The passwords of 8 characters or more with an uppercase letter, a lowercase
\* letter and a digit, and those among them that the policy of the pool
\* accepts.
StrongPasswords == {"Passw0rd", "Passw0rd!"}

PoolPasswords == {"Passw0rd!"}

\* The confirmation codes the pool sends, and the one it sends next.
PoolCodes == {"123456", "654321"}

NextCode(code) == IF code = "123456" THEN "654321" ELSE "123456"

\* The answers of the pool to a request: the code of the exception, or "ok",
\* and the pool after the request. A request that is refused leaves the pool
\* as it is.
Refused(codes) == {[code |-> c, pool |-> pool] : c \in codes}

Accepted(after) == {[code |-> "ok", pool |-> after]}

\* cognito.signUp
CognitoSignUp(params) ==
    IF params.Username \in DOMAIN pool THEN Refused({"UsernameExistsException"})
    ELSE IF params.Password \notin PoolPasswords THEN Refused({"InvalidPasswordException"})
    ELSE IF params.Username \notin WellFormedEmails \cup PoolPhones
         THEN Refused({"InvalidParameterException"})
    ELSE Accepted((params.Username :>
                     [password |-> params.Password, confirmed |-> FALSE,
                      code |-> "123456", reset |-> ""]) @@ pool)

\* cognito.initiateAuth
CognitoInitiateAuth(params) ==
    IF params.Username \notin DOMAIN pool THEN Refused({"UserNotFoundException"})
    ELSE IF pool[params.Username].password # params.Password
         THEN Refused({"NotAuthorizedException"})
    ELSE IF ~pool[params.Username].confirmed THEN Refused({"UserNotConfirmedException"})
    ELSE Accepted(pool)

\* cognito.confirmSignUp as it would be if a code that does not match were
\* withdrawn.
CognitoConfirmSignUpWithdrawingCode(params) ==
    IF params.Username \notin DOMAIN pool THEN Refused({"UserNotFoundException"})
    ELSE IF pool[params.Username].confirmed THEN Refused({"NotAuthorizedException"})
    ELSE IF pool[params.Username].code # params.ConfirmationCode
         THEN {[code |-> "CodeMismatchException",
                pool |-> [pool EXCEPT ![params.Username].code = ""]]}
    ELSE Refused({"ExpiredCodeException"})
           \cup Accepted([pool EXCEPT ![params.Username].confirmed = TRUE,
                                      ![params.Username].code = ""])

\* cognito.confirmSignUp: a code that matches may have expired.
CognitoConfirmSignUp(params) ==
    IF params.Username \notin DOMAIN pool THEN Refused({"UserNotFoundException"})
    ELSE IF pool[params.Username].confirmed THEN Refused({"NotAuthorizedException"})
    ELSE IF pool[params.Username].code # params.ConfirmationCode
         THEN Refused({"CodeMismatchException"})
    ELSE Refused({"ExpiredCodeException"})
           \cup Accepted([pool EXCEPT ![params.Username].confirmed = TRUE,
                                      ![params.Username].code = ""])

\* cognito.resendConfirmationCode
CognitoResendConfirmationCode(params) ==
    IF params.Username \notin DOMAIN pool THEN Refused({"UserNotFoundException"})
    ELSE IF pool[params.Username].confirmed THEN Refused({"InvalidParameterException"})
    ELSE Refused({"LimitExceededException"})
           \cup Accepted([pool EXCEPT ![params.Username].code = NextCode(@)])

\* cognito.adminConfirmSignUp
CognitoAdminConfirmSignUp(params) ==
    IF params.Username \notin DOMAIN pool THEN Refused({"UserNotFoundException"})
    ELSE IF pool[params.Username].confirmed THEN Refused({"NotAuthorizedException"})
    ELSE Accepted([pool EXCEPT ![params.Username].confirmed = TRUE,
                               ![params.Username].code = ""])

\* cognito.forgotPassword
CognitoForgotPassword(params) ==
    IF params.Username \notin DOMAIN pool THEN Refused({"UserNotFoundException"})
    ELSE IF ~pool[params.Username].confirmed THEN Refused({"InvalidParameterException"})
    ELSE Refused({"LimitExceededException"})
           \cup Accepted([pool EXCEPT ![params.Username].reset = NextCode(@)])

\* cognito.confirmForgotPassword
CognitoConfirmForgotPassword(params) ==
    IF params.Username \notin DOMAIN pool THEN Refused({"UserNotFoundException"})
    ELSE IF pool[params.Username].reset # params.ConfirmationCode
         THEN Refused({"CodeMismatchException"})
    ELSE IF params.Password \notin PoolPasswords THEN Refused({"InvalidPasswordException"})
    ELSE Refused({"ExpiredCodeException"})
           \cup Accepted([pool EXCEPT ![params.Username].password = params.Password,
                                      ![params.Username].reset = ""])

(***************************************************************************)
(* The auth handlers.                                                      *)
(***************************************************************************)
\* !email && !phone_number
NoUsername(body) == Falsy(body, "email") /\ Falsy(body, "phone_number")

\* BothUsernames as it would be without the check.
BothUsernamesAccepted(body) == FALSE

\* email && phone_number
BothUsernames(body) == ~Falsy(body, "email") /\ ~Falsy(body, "phone_number")

\* const username = email || phone_number
AuthUsername(body) == OrElse(body, "email", body.phone_number)

\* The checks of the format of the email, of the phone number and of the
\* strength of the password in `field`.
BadFormat(body) ==
    \/ ~Falsy(body, "email") /\ body.email \notin WellFormedEmails
    \/ ~Falsy(body, "phone_number") /\ body.phone_number \notin WellFormedPhones

WeakPassword(body, field) == body[field] \notin StrongPasswords

\* The handler up to the request to the pool: 400 when its own validation
\* fails, else the parameters of the request are kept.
AuthStarted(op, body, invalid, params) ==
    IF invalid
    THEN Returned(Started(op, 0, 0, body, "done"), 400)
    ELSE [Started(op, 0, 0, body, "cognito") EXCEPT !.item = params]

authStart(p, started) ==
    /\ CanStart(p)
    /\ calls' = calls - 1
    /\ inv' = [inv EXCEPT ![p] = started]
    /\ UNCHANGED <<tasks, pool, users, jobs, clock, nextId>>

\* The pool answers; the catch block maps the code of an exception to a status.
authCall(p, op, answers, errors, success) ==
    /\ At(p, op, "cognito")
    /\ \E answer \in answers :
         /\ pool' = answer.pool
         /\ inv' = [inv EXCEPT ![p] =
                      Returned(inv[p], IF answer.code = "ok" THEN success
                                       ELSE IF answer.code \in DOMAIN errors
                                            THEN errors[answer.code]
                                            ELSE 500)]
    /\ UNCHANGED <<tasks, users, jobs, clock, nextId, calls>>

SignUpBodies ==
    {[email |-> "a@x.io", password |-> "Passw0rd!", name |-> "Ann"],
     [email |-> "a@x.io", password |-> "Passw0rd", name |-> "Ann"],
     [phone_number |-> "+91 12345 67890", password |-> "Passw0rd!", name |-> "Ann"],
     [email |-> "nope", password |-> "Passw0rd!", name |-> "Ann"],
     [email |-> "a@x.io", phone_number |-> "+911234567890",
      password |-> "Passw0rd!", name |-> "Ann"],
     [email |-> "a@x.io", password |-> "short", name |-> "Ann"],
     [email |-> "a@x.io", password |-> "Passw0rd!"]}

signUp(p) ==
    \/ \E body \in SignUpBodies :
           authStart(p, AuthStarted("signUp", body,
               \/ NoUsername(body) \/ ~Has(body, "password") \/ ~Has(body, "name")
               \/ BothUsernames(body)
               \/ BadFormat(body)
               \/ WeakPassword(body, "password"),
               [Username |-> AuthUsername(body), Password |-> body.password]))
    \/ authCall(p, "signUp", CognitoSignUp(inv[p].item),
                [UsernameExistsException |-> 409, InvalidPasswordException |-> 400,
                 InvalidParameterException |-> 400], 201)

SignInBodies ==
    {[email |-> "a@x.io", password |-> "Passw0rd!"],
     [email |-> "a@x.io", password |-> "Passw0rd"],
     [email |-> "a@x.io"]}

signIn(p) ==
    \/ \E body \in SignInBodies :
           authStart(p, AuthStarted("signIn", body,
               NoUsername(body) \/ ~Has(body, "password") \/ BothUsernames(body),
               [Username |-> AuthUsername(body), Password |-> body.password]))
    \/ authCall(p, "signIn", CognitoInitiateAuth(inv[p].item),
                [UserNotFoundException |-> 401, NotAuthorizedException |-> 401,
                 UserNotConfirmedException |-> 403, InvalidParameterException |-> 400], 200)

ConfirmSignUpBodies ==
    {[email |-> "a@x.io", confirmationCode |-> "123456"],
     [email |-> "a@x.io", confirmationCode |-> "000000"],
     [confirmationCode |-> "123456"]}

confirmSignUp(p) ==
    \/ \E body \in ConfirmSignUpBodies :
           authStart(p, AuthStarted("confirmSignUp", body,
               NoUsername(body) \/ ~Has(body, "confirmationCode") \/ BothUsernames(body),
               [Username |-> AuthUsername(body), ConfirmationCode |-> body.confirmationCode]))
    \/ authCall(p, "confirmSignUp", CognitoConfirmSignUp(inv[p].item),
                [UserNotFoundException |-> 404, CodeMismatchException |-> 400,
                 ExpiredCodeException |-> 400, UserAlreadyConfirmedException |-> 400,
                 InvalidParameterException |-> 400], 200)

UsernameBodies ==
    {[email |-> "a@x.io"], EmptyObject,
     [email |-> "a@x.io", phone_number |-> "+911234567890"],
     [email |-> "", phone_number |-> "+911234567890"]}

resendConfirmationCode(p) ==
    \/ \E body \in UsernameBodies :
           authStart(p, AuthStarted("resendConfirmationCode", body,
               NoUsername(body) \/ BothUsernames(body),
               [Username |-> AuthUsername(body)]))
    \/ authCall(p, "resendConfirmationCode", CognitoResendConfirmationCode(inv[p].item),
                [UserNotFoundException |-> 404, UserAlreadyConfirmedException |-> 400,
                 InvalidParameterException |-> 400, LimitExceededException |-> 429], 200)

adminConfirmUser(p) ==
    \/ \E body \in UsernameBodies :
           authStart(p, AuthStarted("adminConfirmUser", body,
               NoUsername(body) \/ BothUsernames(body),
               [Username |-> AuthUsername(body)]))
    \/ authCall(p, "adminConfirmUser", CognitoAdminConfirmSignUp(inv[p].item),
                [UserNotFoundException |-> 404, UserAlreadyConfirmedException |-> 400,
                 InvalidParameterException |-> 400, NotAuthorizedException |-> 403], 200)

forgotPassword(p) ==
    \/ \E body \in UsernameBodies :
           authStart(p, AuthStarted("forgotPassword", body,
               NoUsername(body) \/ BothUsernames(body),
               [Username |-> AuthUsername(body)]))
    \/ authCall(p, "forgotPassword", CognitoForgotPassword(inv[p].item),
                [UserNotFoundException |-> 404, UserNotConfirmedException |-> 403,
                 InvalidParameterException |-> 400, LimitExceededException |-> 429], 200)

ResetPasswordBodies ==
    {[email |-> "a@x.io", confirmationCode |-> "654321", newPassword |-> "Passw0rd!"],
     [email |-> "a@x.io", confirmationCode |-> "654321", newPassword |-> "Passw0rd"],
     [email |-> "a@x.io", confirmationCode |-> "000000", newPassword |-> "Passw0rd!"],
     [email |-> "a@x.io", confirmationCode |-> "654321", newPassword |-> "short"]}

resetPassword(p) ==
    \/ \E body \in ResetPasswordBodies :
           authStart(p, AuthStarted("resetPassword", body,
               \/ NoUsername(body) \/ ~Has(body, "confirmationCode") \/ ~Has(body, "newPassword")
               \/ BothUsernames(body)
               \/ WeakPassword(body, "newPassword"),
               [Username |-> AuthUsername(body), ConfirmationCode |-> body.confirmationCode,
                Password |-> body.newPassword]))
    \/ authCall(p, "resetPassword", CognitoConfirmForgotPassword(inv[p].item),
                [UserNotFoundException |-> 404, CodeMismatchException |-> 400,
                 ExpiredCodeException |-> 400, InvalidPasswordException |-> 400,
                 InvalidParameterException |-> 400, LimitExceededException |-> 429], 200)

AuthHandlers(p) ==
    \/ signUp(p)
    \/ signIn(p)
    \/ confirmSignUp(p)
    \/ resendConfirmationCode(p)
    \/ adminConfirmUser(p)
    \/ forgotPassword(p)
    \/ resetPassword(p)

(***************************************************************************)
(* The task handlers: createTask, updateTask, getTasks.                    *)
(***************************************************************************)
\* An event.body that is not JSON text; the other bodies are given by the
\* value JSON.parse returns for them.
UnparsableBody == [text |-> "{title"]

TaskBodies ==
    {UnparsableBody,
     [id |-> 1, title |-> "t", description |-> "d"],
     [id |-> 2, title |-> "u"],
     [title |-> "t"]}

\* data.title, data.description: undefined when the body does not hold them
TaskFields(data) == [f \in DOMAIN data \cap {"title", "description"} |-> data[f]]

\* An exception leaves the handler: the invocation ends without a response.
Thrown(r) == [r EXCEPT !.pc = "thrown"]

\* An instance takes a new invocation when the last one has ended.
CanStartTask(p) == inv[p].pc \in {"done", "thrown"} /\ calls > 0

\* JSON.parse(event.body) runs before the try block.
taskStart(p, op, id, body) ==
    /\ CanStartTask(p)
    /\ calls' = calls - 1
    /\ inv' = [inv EXCEPT ![p] =
                 IF body = UnparsableBody
                 THEN Thrown(Started(op, id, 0, body, "thrown"))
                 ELSE Started(op, id, 0, body, "request")]
    /\ UNCHANGED <<tasks, pool, users, jobs, clock, nextId>>

\* The request inside the try block: it is refused when the table cannot be
\* reached, when the key is missing or when the condition fails, and the
\* catch block answers 500.
taskRequest(p, op, refused, after) ==
    /\ At(p, op, "request")
    /\ \/ /\ inv' = [inv EXCEPT ![p] = Returned(inv[p], 500)]
          /\ UNCHANGED tasks
       \/ /\ ~refused
          /\ tasks' = after
          /\ inv' = [inv EXCEPT ![p] = Returned(inv[p], 200)]
    /\ UNCHANGED <<pool, users, jobs, clock, nextId, calls>>

createTask(p) ==
    \/ \E body \in TaskBodies : taskStart(p, "createTask", 0, body)
    \/ taskRequest(p, "createTask",
                   ~Has(inv[p].body, "id") \/ inv[p].body.id \in DOMAIN tasks,
                   PutItem(tasks, inv[p].body.id,
                           TaskFields(inv[p].body) @@ [id |-> inv[p].body.id]))

updateTask(p) ==
    \/ \E id \in PathIds(tasks), body \in TaskBodies : taskStart(p, "updateTask", id, body)
    \/ taskRequest(p, "updateTask",
                   inv[p].id \notin DOMAIN tasks \/ DOMAIN TaskFields(inv[p].body) # {"title", "description"},
                   UpdateItem(tasks, "id", inv[p].id, TaskFields(inv[p].body)))

getTasks(p) ==
    \/ /\ CanStartTask(p)
       /\ calls' = calls - 1
       /\ inv' = [inv EXCEPT ![p] = Started("getTasks", 0, 0, EmptyObject, "request")]
       /\ UNCHANGED <<tasks, pool, users, jobs, clock, nextId>>
    \/ taskRequest(p, "getTasks", FALSE, tasks)

(***************************************************************************)
(* The responses of the user, casting and auth handlers.                   *)
(***************************************************************************)
\* The headers that successResponse and errorResponse set.
CorsHeaders ==
    [ContentType |-> "application/json", AccessControlAllowOrigin |-> "*",
     AccessControlAllowCredentials |-> TRUE]

\* errorResponse as it would be without the headers.
errorResponseBare(statusCode, message) ==
    [statusCode |-> statusCode, headers |-> EmptyObject,
     body |-> [success |-> FALSE, message |-> message]]

successResponse(statusCode, body) ==
    [statusCode |-> statusCode, headers |-> CorsHeaders, body |-> body]

errorResponse(statusCode, message) ==
    [statusCode |-> statusCode, headers |-> CorsHeaders,
     body |-> [success |-> FALSE, message |-> message]]

\* The handlers that only read: the body of their success response is
\* { success: true, ...payload }.
ReadOps == {"listUsers", "listJobs", "searchJobs", "getUserApplications"}

\* The body that the handler passes to successResponse, without its payload.
SuccessBody(op) ==
    IF op \in ReadOps
    THEN [success |-> TRUE]
    ELSE [success |-> TRUE, message |-> op]

\* The response of an invocation that has been answered.
Response(r) ==
    IF r.status \in {200, 201}
    THEN successResponse(r.status, SuccessBody(r.op))
    ELSE errorResponse(r.status, r.op)

(***************************************************************************)
(* The system.                                                             *)
(***************************************************************************)
\* The tables are empty, no handler runs, and `n` invocations can start.
InitWith(n) ==
    /\ users = << >>
    /\ jobs = << >>
    /\ tasks = << >>
    /\ pool = << >>
    /\ inv = [p \in Procs |-> Idle]
    /\ clock = 0
    /\ nextId = 1
    /\ calls = n

Init == InitWith(MaxCalls)

UserHandlers(p) ==
    \/ createUser(p)
    \/ updateUser(p)
    \/ deleteUser(p)
    \/ incrementUserView(p)
    \/ addWorkExperience(p)
    \/ addPortfolioItem(p)
    \/ addConnection(p)

JobHandlers(p) ==
    \/ createJob(p)
    \/ updateJob(p)
    \/ deleteJob(p)
    \/ applyForJob(p)
    \/ updateApplicationStatus(p)
    \/ incrementJobView(p)
    \/ addDocument(p)
    \/ removeDocument(p)

\* Every handler, invocations overlapping.
Next == \E p \in Procs : UserHandlers(p) \/ JobHandlers(p)

Spec == Init /\ [][Next]_vars

\* Every handler, one invocation at a time.
NextSeq == UserHandlers("p1") \/ JobHandlers("p1")

SpecSeq == Init /\ [][NextSeq]_vars

\* The user handlers, one invocation at a time.
NextUsersSeq == UserHandlers("p1")

SpecUsersSeq == Init /\ [][NextUsersSeq]_vars

\* The casting handlers, one invocation at a time.
NextJobsSeq == JobHandlers("p1")

SpecJobsSeq == Init /\ [][NextJobsSeq]_vars

\* The user handlers, invocations overlapping.
NextUsers == \E p \in Procs : UserHandlers(p)

SpecUsers == Init /\ [][NextUsers]_vars

\* The applications of a job: createJob, applyForJob and
\* updateApplicationStatus, invocations overlapping.
NextApp == \E p \in Procs : createJob(p) \/ applyForJob(p) \/ updateApplicationStatus(p)

SpecApp == InitWith(MaxApplyCalls) /\ [][NextApp]_vars

\* The creations and the appends, invocations overlapping.
NextAppend ==
    \E p \in Procs :
        \/ createUser(p)
        \/ createJob(p)
        \/ addWorkExperience(p)
        \/ addPortfolioItem(p)
        \/ addConnection(p)
        \/ addDocument(p)

SpecAppend == Init /\ [][NextAppend]_vars

\* The creations and the listings, one invocation at a time, and no write
\* while a listing is under way.
NextList ==
    \/ ~Paging("p1") /\ createUser("p1")
    \/ ~Paging("p1") /\ createJob("p1")
    \/ ~Paging("p1") /\ updateJob("p1")
    \/ listUsers("p1")
    \/ listJobs("p1")

\* uuidv4() hands out identifiers of one, two and three characters.
FirstIds == {1, 9, 99}

InitList ==
    /\ users = << >>
    /\ jobs = << >>
    /\ tasks = << >>
    /\ pool = << >>
    /\ inv = [p \in Procs |-> Idle]
    /\ clock = 0
    /\ nextId \in FirstIds
    /\ calls = MaxListCalls

SpecList == InitList /\ [][NextList]_vars

\* The creations, with the identifier that uuidv4() hands out first being one
\* that a client has sent as a path parameter (the view counters store a
\* record under any identifier they are given). Invocations overlapping.
InitIds ==
    /\ users = << >>
    /\ jobs = << >>
    /\ tasks = << >>
    /\ pool = << >>
    /\ inv = [p \in Procs |-> Idle]
    /\ clock = 0
    /\ nextId = 0
    /\ calls = MaxCalls

NextIds ==
    \E p \in Procs :
        \/ createUser(p)
        \/ createJob(p)
        \/ incrementUserView(p)
        \/ incrementJobView(p)

SpecIds == InitIds /\ [][NextIds]_vars

\* The user, casting and auth handlers, one invocation after the other.
NextAllSeq == UserHandlers("p1") \/ JobHandlers("p1") \/ AuthHandlers("p1")

SpecAllSeq == Init /\ [][NextAllSeq]_vars

\* createJob and updateJob, one invocation after the other.
NextJobWrites == createJob("p1") \/ updateJob("p1")

SpecJobWrites == Init /\ [][NextJobWrites]_vars

\* The task handlers, invocations overlapping.
NextTasks == \E p \in Procs : createTask(p) \/ updateTask(p) \/ getTasks(p)

SpecTasks == Init /\ [][NextTasks]_vars

\* Jobs, applications and the list of a user's applications, one invocation
\* after the other.
NextApplications == createJob("p1") \/ applyForJob("p1") \/ getUserApplications("p1")

SpecApplications == InitWith(MaxApplyCalls) /\ [][NextApplications]_vars

\* Jobs are stored and changed, and searched, one invocation after the other.
NextSearch == createJob("p1") \/ updateJob("p1") \/ searchJobs("p1")

SpecSearch == InitWith(MaxListCalls) /\ [][NextSearch]_vars

\* The user, casting and auth handlers with the handlers that only read, one
\* invocation after the other.
NextResponses ==
    \/ NextAllSeq
    \/ listUsers("p1")
    \/ listJobs("p1")
    \/ searchJobs("p1")
    \/ getUserApplications("p1")

SpecResponses == Init /\ [][NextResponses]_vars

\* Users and jobs are created, users apply and connect, invocations
\* overlapping.
NextSingleItem ==
    \E p \in Procs : createUser(p) \/ createJob(p) \/ applyForJob(p) \/ addConnection(p)

SpecSingleItem == Init /\ [][NextSingleItem]_vars

\* Jobs are created, documents are added and removed, invocations overlapping.
NextDocuments ==
    \E p \in Procs : createJob(p) \/ addDocument(p) \/ removeDocument(p)

SpecDocuments == InitWith(MaxApplyCalls) /\ [][NextDocuments]_vars

\* Records are created and viewed, invocations overlapping.
SpecViews == Init /\ [][NextIds]_vars

(***************************************************************************)
(* What the claims speak of.                                               *)
(***************************************************************************)
\* Instance p returns the response of an invocation of `op` in this step.
Answers(p, op) ==
    /\ inv'[p].op = op
    /\ inv'[p].pc = "done"
    /\ (inv[p].pc # "done" \/ calls' # calls)

\* Instance p holds the response `status` of an invocation of `op`.
Answered(p, op, status) ==
    inv[p].op = op /\ inv[p].pc = "done" /\ inv[p].status = status

\* The stored users whose username is `name`.
Holders(table, name) ==
    {k \in DOMAIN table : Has(table[k], "username") /\ table[k].username = name}

\* The list stored under `attr` of item `key`, empty when there is none.
StoredList(table, key, attr) ==
    IF key \in DOMAIN table /\ Has(table[key], attr) THEN table[key][attr] ELSE << >>

\* User u has an application in the stored list of job j.
Applied(j, u) ==
    \E i \in 1..Len(StoredList(jobs, j, "appliedBy")) :
        StoredList(jobs, j, "appliedBy")[i].userId = u

(***************************************************************************)
(* C1  createUser with a stored username, invocations not overlapping.     *)
(***************************************************************************)
\* C1 as stated: createUser with the username of a stored user returns 409
\* and adds no record, whatever the other fields of the body are.
C1_ConflictWhateverTheBody ==
    [][\A p \in Procs :
         (/\ Answers(p, "createUser")
          /\ ~Falsy(inv'[p].body, "username")
          /\ Holders(users, inv'[p].body.username) # {})
         => (inv'[p].status = 409 /\ users' = users)]_vars

\* C1 as amended: createUser with the username of a stored user adds no
\* record; it returns 409 when the body carries an email, and 400 (the
\* validation comes first) when the email is missing or empty.
C1_ConflictAfterValidation ==
    [][\A p \in Procs :
         (/\ Answers(p, "createUser")
          /\ ~Falsy(inv'[p].body, "username")
          /\ Holders(users, inv'[p].body.username) # {})
         => (/\ inv'[p].status = IF Falsy(inv'[p].body, "email") THEN 400 ELSE 409
             /\ users' = users)]_vars

\* A createUser was answered 409 for the username of a stored user whose
\* email differs from the one in the body.
C1_Witness ==
    \E p \in Procs, k \in DOMAIN users :
        /\ Answered(p, "createUser", 409)
        /\ k \in Holders(users, inv[p].body.username)
        /\ Has(users[k], "email")
        /\ users[k].email # inv[p].body.email

(***************************************************************************)
(* C2  Overlapping createUser invocations with one username.               *)
(***************************************************************************)
\* C2: a createUser that has passed the username-index check completes its
\* insert with 201 although another invocation has stored the same username
\* since the check, so that two stored users share the username.
C2_RacingCreatesBothInsert ==
    [][\A p \in Procs :
         (/\ At(p, "createUser", "put")
          /\ inv'[p].pc = "done"
          /\ Holders(users, inv[p].body.username) # {})
         => (/\ inv'[p].status = 201
             /\ inv[p].uid \in Holders(users', inv[p].body.username)
             /\ Cardinality(Holders(users', inv[p].body.username)) >= 2)]_vars

\* Two createUser invocations were both answered 201 and two stored users
\* share one username.
C2_Witness ==
    /\ \A p \in Procs : Answered(p, "createUser", 201)
    /\ \E k1, k2 \in DOMAIN users :
         /\ k1 # k2
         /\ Has(users[k1], "username")
         /\ k2 \in Holders(users, users[k1].username)
         /\ \A p \in Procs : inv[p].body.username = users[k1].username

(***************************************************************************)
(* C3  Username uniqueness, invocations not overlapping.                   *)
(***************************************************************************)
UniqueUsernames ==
    \A k1, k2 \in DOMAIN users :
        (k1 # k2 /\ Has(users[k1], "username") /\ Has(users[k2], "username"))
        => users[k1].username # users[k2].username

\* C3: after every step no two stored users have the same username; an
\* updateUser that changes the username to one held by a different user
\* returns 409 and changes nothing, and one that carries the user's own
\* current username is not answered 409.
C3_UsernamesUnique ==
    [][/\ UniqueUsernames'
       /\ \A p \in Procs :
            (/\ Answers(p, "updateUser")
             /\ inv'[p].id \in DOMAIN users
             /\ ~Falsy(inv'[p].body, "username"))
            => LET name == inv'[p].body.username
                   own == inv'[p].id \in Holders(users, name)
                   taken == Holders(users, name) \ {inv'[p].id} # {}
               IN  /\ (taken /\ ~own) => (inv'[p].status = 409 /\ users' = users)
                   /\ own => inv'[p].status = 200]_vars

\* An updateUser was answered 409 for a username that another stored user holds.
C3_Witness ==
    \E p \in Procs :
        /\ Answered(p, "updateUser", 409)
        /\ inv[p].id \in DOMAIN users
        /\ Has(users[inv[p].id], "username")
        /\ users[inv[p].id].username # inv[p].body.username
        /\ Holders(users, inv[p].body.username) # {}

(***************************************************************************)
(* C4  A second application, invocations not overlapping.                  *)
(***************************************************************************)
\* C4: applyForJob for a job whose appliedBy list already holds an
\* application of the same userId returns 409 and leaves the list as long
\* as it was.
C4_SecondApplicationRejected ==
    [][\A p \in Procs :
         (/\ Answers(p, "applyForJob")
          /\ Has(inv'[p].body, "userId")
          /\ Applied(inv'[p].id, inv'[p].body.userId))
         => (/\ inv'[p].status = 409
             /\ Len(StoredList(jobs', inv'[p].id, "appliedBy"))
                  = Len(StoredList(jobs, inv'[p].id, "appliedBy")))]_vars

\* An applyForJob was answered 409 and the job holds the one application of
\* that user.
C4_Witness ==
    \E p \in Procs :
        /\ Answered(p, "applyForJob", 409)
        /\ Applied(inv[p].id, inv[p].body.userId)
        /\ Len(StoredList(jobs, inv[p].id, "appliedBy")) = 1

(***************************************************************************)
(* C5  Duplicate applications under overlapping invocations.               *)
(***************************************************************************)
\* C5: in every reachable state the appliedBy list of a job holds at most one
\* application per userId.
C5_NoDuplicateApplications ==
    \A j \in DOMAIN jobs :
        \A i, k \in 1..Len(StoredList(jobs, j, "appliedBy")) :
            i # k => jobs[j].appliedBy[i].userId # jobs[j].appliedBy[k].userId

(***************************************************************************)
(* C6  Lost updates of updateApplicationStatus.                            *)
(***************************************************************************)
\* The appIds of a list of applications.
AppIds(appliedBy) == {appliedBy[i].appId : i \in 1..Len(appliedBy)}

\* C6: updateApplicationStatus writes back the list it read: after its write
\* the stored list is the list read with the one status changed, whatever was
\* written to the job since the read, and every application that was appended
\* to the stored list after its read is absent from the stored list.
C6_WriteBackLosesAppends ==
    [][\A p \in Procs :
         (At(p, "updateApplicationStatus", "update") /\ inv'[p].pc = "done")
         => /\ inv'[p].status = 200
            /\ StoredList(jobs', inv[p].id, "appliedBy") = inv[p].item
            /\ \A a \in AppIds(StoredList(jobs, inv[p].id, "appliedBy")) \ AppIds(inv[p].item) :
                 a \notin AppIds(StoredList(jobs', inv[p].id, "appliedBy"))]_vars

\* An applyForJob was answered 201, an updateApplicationStatus on the same
\* job was answered 200, and the job holds no application of the applicant.
C6_Witness ==
    \E p, q \in Procs :
        /\ Answered(p, "applyForJob", 201)
        /\ Answered(q, "updateApplicationStatus", 200)
        /\ inv[p].id = inv[q].id
        /\ inv[p].id \in DOMAIN jobs
        /\ ~Applied(inv[p].id, inv[p].body.userId)

(***************************************************************************)
(* C7  Existence is checked before mutation.                               *)
(***************************************************************************)
UserMutators ==
    {"updateUser", "deleteUser", "incrementUserView", "addWorkExperience",
     "addPortfolioItem", "addConnection"}

JobMutators ==
    {"updateJob", "deleteJob", "applyForJob", "updateApplicationStatus",
     "incrementJobView", "addDocument", "removeDocument"}

\* C7: a mutating handler invoked alone with an id that has no stored record
\* (and a body that passes its validation) returns 404 and leaves the store
\* without a record for that id.
C7_ExistenceChecked ==
    [][\A p \in Procs :
         /\ ((\E op \in UserMutators : Answers(p, op))
              /\ inv'[p].status # 400 /\ inv'[p].id \notin DOMAIN users)
            => (inv'[p].status = 404 /\ inv'[p].id \notin DOMAIN users')
         /\ ((\E op \in JobMutators : Answers(p, op))
              /\ inv'[p].status # 400 /\ inv'[p].id \notin DOMAIN jobs)
            => (inv'[p].status = 404 /\ inv'[p].id \notin DOMAIN jobs')]_vars

(***************************************************************************)
(* C8  An update without updatable fields.                                 *)
(***************************************************************************)
\* C8: updateUser and updateJob on a record that createUser or createJob
\* stored, with a body that holds none of the updatable fields, return 400
\* and leave the stored record unchanged.
C8_EmptyUpdateRejected ==
    [][\A p \in Procs :
         /\ (/\ Answers(p, "updateUser")
             /\ inv'[p].id \in DOMAIN users
             /\ Has(users[inv'[p].id], "createdAt")
             /\ DOMAIN inv'[p].body \cap userUpdateableFields = {})
            => (inv'[p].status = 400 /\ users' = users)
         /\ (/\ Answers(p, "updateJob")
             /\ inv'[p].id \in DOMAIN jobs
             /\ Has(jobs[inv'[p].id], "createdAt")
             /\ DOMAIN inv'[p].body \cap jobUpdateableFields = {})
            => (inv'[p].status = 400 /\ jobs' = jobs)]_vars

(***************************************************************************)
(* C9  Replace, not merge.                                                 *)
(***************************************************************************)
NestedObjectFields ==
    {"basicDetails", "contactDetails", "physicalStats", "skills", "subscription", "tokens"}

\* C9: after a successful updateUser whose body carries a nested object field
\* with value X, the stored field is X: it has the keys of X and no other.
C9_ReplaceNotMerge ==
    [][\A p \in Procs :
         (Answers(p, "updateUser") /\ inv'[p].status = 200)
         => \A f \in NestedObjectFields \cap DOMAIN inv'[p].body :
              /\ inv'[p].id \in DOMAIN users'
              /\ Has(users'[inv'[p].id], f)
              /\ DOMAIN users'[inv'[p].id][f] = DOMAIN inv'[p].body[f]
              /\ users'[inv'[p].id][f] = inv'[p].body[f]]_vars

\* An updateUser with a two-key basicDetails was answered 200 on a user that
\* createUser stored (with all nine keys), and the stored basicDetails has
\* the two keys only.
C9_Witness ==
    \E p \in Procs :
        /\ Answered(p, "updateUser", 200)
        /\ Has(inv[p].body, "basicDetails")
        /\ inv[p].id \in DOMAIN users
        /\ Has(users[inv[p].id], "createdAt")
        /\ users[inv[p].id].basicDetails = inv[p].body.basicDetails
        /\ ~Has(users[inv[p].id].basicDetails, "lastName")

(***************************************************************************)
(* C10  Appends.                                                           *)
(***************************************************************************)
AppendOps == {"addWorkExperience", "addPortfolioItem", "addConnection", "addDocument"}

\* The list an append handler appends to.
AppendAttr(op) ==
    CASE op = "addWorkExperience" -> "workExperience"
      [] op = "addPortfolioItem" -> "portfolio"
      [] op = "addConnection" -> "connections"
      [] op = "addDocument" -> "documents"

\* The identifier of an element of that list.
ElemId(op, elem) == IF op = "addConnection" THEN elem.connectionId ELSE elem.id

\* The list of item `key` before and after the step.
ListBefore(op, key) ==
    StoredList(IF op = "addDocument" THEN jobs ELSE users, key, AppendAttr(op))

ListAfter(op, key) ==
    StoredList(IF op = "addDocument" THEN jobs' ELSE users', key, AppendAttr(op))

\* C10: the write of a successful append makes the stored list exactly one
\* element longer than it was immediately before the write, the elements it
\* had are kept, and the id of the new, last element differs from the id of
\* each of them.
C10_AppendAddsOneFreshElement ==
    [][\A p \in Procs, op \in AppendOps :
         (At(p, op, "update") /\ inv'[p].pc = "done" /\ inv'[p].status = 201)
         => LET old == ListBefore(op, inv[p].id)
                new == ListAfter(op, inv[p].id)
            IN  /\ Len(new) = Len(old) + 1
                /\ SubSeq(new, 1, Len(old)) = old
                /\ new[Len(new)] = inv[p].item
                /\ \A i \in 1..Len(old) :
                     ElemId(op, old[i]) # ElemId(op, new[Len(new)])]_vars

\* Two addWorkExperience invocations on one user were both answered 201 and
\* the stored list holds two entries with different ids.
C10_Witness ==
    /\ \A p \in Procs : Answered(p, "addWorkExperience", 201)
    /\ \E k \in DOMAIN users :
         /\ \A p \in Procs : inv[p].id = k
         /\ Len(StoredList(users, k, "workExperience")) = 2
         /\ users[k].workExperience[1].id # users[k].workExperience[2].id

(***************************************************************************)
(* C11  Append-only list fields.                                           *)
(***************************************************************************)
UserListFields == {"workExperience", "portfolio", "connections"}

\* Sequence s is a prefix of sequence t.
IsPrefix(s, t) == Len(s) <= Len(t) /\ SubSeq(t, 1, Len(s)) = s

\* C11 as stated: for every write on a stored record, each of the lists
\* workExperience, portfolio, connections of a user and appliedBy of a job
\* before the write is a prefix of the list after the write.
C11_ListsAppendOnly ==
    [][/\ \A k \in DOMAIN users \cap DOMAIN users', a \in UserListFields :
            IsPrefix(StoredList(users, k, a), StoredList(users', k, a))
       /\ \A j \in DOMAIN jobs \cap DOMAIN jobs' :
            IsPrefix(StoredList(jobs, j, "appliedBy"), StoredList(jobs', j, "appliedBy"))]_vars

\* The write of instance p is the update of an updateUser / updateJob on item
\* `key` whose body carries list field `a`, and it stores the body's value.
ReplacesList(p, op, key, a, after) ==
    /\ At(p, op, "update")
    /\ inv[p].id = key
    /\ Has(inv[p].body, a)
    /\ after = inv[p].body[a]

\* The write of instance p is the update of an updateApplicationStatus on job
\* j: the list keeps its length and its order, and the element of the userId
\* of the path is the old one with the status of the body.
RewritesStatus(p, j, before, after) ==
    /\ At(p, "updateApplicationStatus", "update")
    /\ inv[p].id = j
    /\ Len(after) = Len(before)
    /\ \A i \in 1..Len(before) :
         \/ after[i] = before[i]
         \/ /\ before[i].userId = inv[p].arg
            /\ after[i] = [status |-> inv[p].body.status] @@ before[i]

\* C11 as amended, invocations not overlapping: a write keeps the list before
\* it as a prefix of the list after it, unless it is the write of an
\* updateUser or updateJob whose body carries the list (the body's value is
\* stored in its place) or the write of an updateApplicationStatus (one
\* element of appliedBy is stored with a new status).
C11_AppendOnlyButForUpdates ==
    [][/\ \A k \in DOMAIN users \cap DOMAIN users', a \in UserListFields :
            LET before == StoredList(users, k, a)
                after == StoredList(users', k, a)
            IN  \/ IsPrefix(before, after)
                \/ \E p \in Procs : ReplacesList(p, "updateUser", k, a, after)
       /\ \A j \in DOMAIN jobs \cap DOMAIN jobs' :
            LET before == StoredList(jobs, j, "appliedBy")
                after == StoredList(jobs', j, "appliedBy")
            IN  \/ IsPrefix(before, after)
                \/ \E p \in Procs : ReplacesList(p, "updateJob", j, "appliedBy", after)
                \/ \E p \in Procs : RewritesStatus(p, j, before, after)]_vars

\* An updateApplicationStatus was answered 200 and the one application of the
\* job is stored with the status of the body.
C11_Witness ==
    \E p \in Procs :
        /\ Answered(p, "updateApplicationStatus", 200)
        /\ Len(StoredList(jobs, inv[p].id, "appliedBy")) = 1
        /\ Has(jobs[inv[p].id].appliedBy[1], "status")
        /\ jobs[inv[p].id].appliedBy[1].status = inv[p].body.status
        /\ jobs[inv[p].id].appliedBy[1].userId = inv[p].arg

(***************************************************************************)
(* C12  removeDocument.                                                    *)
(***************************************************************************)
\* C12: removeDocument on a stored job, invoked alone, with a docId that is
\* the id of no element of the job's documents returns 404 and leaves the job
\* record unchanged; with a docId that is present it returns 200 and the
\* stored list is the old list without the elements of that id, the others
\* kept in order.
C12_RemoveDocument ==
    [][\A p \in Procs :
         (Answers(p, "removeDocument") /\ inv'[p].id \in DOMAIN jobs)
         => LET j == inv'[p].id
                docId == inv'[p].arg
                old == StoredList(jobs, j, "documents")
            IN  IF \A i \in 1..Len(old) : old[i].id # docId
                THEN inv'[p].status = 404 /\ jobs' = jobs
                ELSE /\ inv'[p].status = 200
                     /\ StoredList(jobs', j, "documents")
                          = SelectSeq(old, LAMBDA doc : doc.id # docId)]_vars

(***************************************************************************)
(* C13  Paging through a listing.                                          *)
(***************************************************************************)
\* The keys a complete listing of instance p has to return: every stored
\* record, or every stored job of the category of the query.
Listed(p) ==
    IF inv[p].op = "listUsers" THEN DOMAIN users
    ELSE {j \in DOMAIN jobs :
            Has(inv[p].body, "category")
            => (Has(jobs[j], "jobCategory") /\ jobs[j].jobCategory = inv[p].body.category)}

\* Instance p receives a page in this step.
PageReturned(p) ==
    inv[p].op \in ListOps /\ inv[p].pc = "scan" /\ inv'[p].status = 200

\* C13: with no write during the listing, feeding each lastKey into the next
\* call with the same page size terminates (every lastKey is the token of a
\* key that is later in the order of the scan than the start key of the page,
\* so the pages are at most one more than the records); no page returns a
\* record that an earlier page returned, and when lastKey is null the pages
\* together hold every stored record (of the category, when filtered) exactly
\* once.
C13_PagingReturnsEveryRecordOnce ==
    [][\A p \in Procs :
         PageReturned(p)
         => LET before == inv[p].arg
                after == inv'[p].arg
                keyName == IF inv[p].op = "listUsers" THEN "userId" ELSE "jobId"
            IN  /\ \A i \in (Len(before) + 1)..Len(after) :
                     \A k \in 1..Len(after) : after[k] = after[i] => k = i
                /\ inv'[p].item.lastKey = NoLastKey => Range(after) = Listed(p)
                /\ (inv'[p].item.lastKey # NoLastKey /\ Has(inv[p].item, "ExclusiveStartKey"))
                     => KeyHash(DecodeLastKey(inv'[p].item.lastKey)[keyName])
                          > KeyHash(inv[p].item.ExclusiveStartKey[keyName])]_vars

\* A listing of the jobs of one category with page size 1 has ended after
\* three pages or more, and it returned one of the two stored jobs.
C13_Witness ==
    /\ inv["p1"].op = "listJobs"
    /\ inv["p1"].pc = "done"
    /\ inv["p1"].status = 200
    /\ inv["p1"].item.lastKey = NoLastKey
    /\ Has(inv["p1"].body, "category")
    /\ Has(inv["p1"].body, "lastKey")
    /\ inv["p1"].body.limit = 1
    /\ Cardinality(DOMAIN jobs) = 2
    /\ Len(inv["p1"].arg) = 1

(***************************************************************************)
(* C14  The continuation token.                                            *)
(***************************************************************************)
\* The table and the key attribute of a listing.
ListTable(op) == IF op = "listUsers" THEN users ELSE jobs

ListKeyName(op) == IF op = "listUsers" THEN "userId" ELSE "jobId"

\* C14: the lastKey of a response is null exactly when the scan returned no
\* last-evaluated key; otherwise the start key that the handler derives from
\* the lastKey is that last-evaluated key, and the start key of the scan of
\* the next page is the key whose token the client sent.
C14_TokenRoundTrips ==
    [][\A p \in Procs :
         /\ PageReturned(p)
            => LET result == Scan(ListTable(inv[p].op), ListKeyName(inv[p].op), inv[p].item)
                   lastKey == inv'[p].item.lastKey
               IN  /\ lastKey = NoLastKey <=> ~Has(result, "LastEvaluatedKey")
                   /\ Has(result, "LastEvaluatedKey")
                        => DecodeLastKey(lastKey) = result.LastEvaluatedKey
         /\ (Paging(p) /\ inv[p].pc = "done" /\ inv'[p].op = inv[p].op)
            => /\ inv'[p].pc = "scan"
               /\ Has(inv'[p].item, "ExclusiveStartKey")
               /\ EncodeLastKey(inv'[p].item.ExclusiveStartKey) = inv[p].item.lastKey]_vars

\* A second page of users was returned for a token whose text is 16 bytes
\* long (a key of three characters), and it ended the listing.
C14_Witness ==
    /\ inv["p1"].op = "listUsers"
    /\ inv["p1"].pc = "done"
    /\ inv["p1"].status = 200
    /\ Has(inv["p1"].body, "lastKey")
    /\ Len(fromBase64(inv["p1"].body.lastKey)) = 16
    /\ inv["p1"].item.lastKey = NoLastKey

(***************************************************************************)
(* C15  Identifiers of created records.                                    *)
(***************************************************************************)
\* The step is the put of a create of instance p on `table`: when a record is
\* stored under the identifier, the create returns 409 and the table is
\* unchanged; otherwise it returns 201 and the table is the old one with the
\* new record under the identifier.
PutKeepsRecords(p, op, table, tableAfter) ==
    (At(p, op, "put") /\ inv'[p].pc = "done")
    => IF inv[p].uid \in DOMAIN table
       THEN inv'[p].status = 409 /\ tableAfter = table
       ELSE /\ inv'[p].status = 201
            /\ DOMAIN tableAfter = DOMAIN table \cup {inv[p].uid}
            /\ tableAfter[inv[p].uid] = inv[p].item
            /\ \A k \in DOMAIN table : tableAfter[k] = table[k]

\* C15: every successful createUser and createJob stores its record under an
\* identifier that no stored record had, a create never overwrites a stored
\* record (the put returns 409 when the key exists), and the identifiers of
\* the creates under way are pairwise distinct.
C15_CreatesUseFreshIdentifiers ==
    [][/\ \A p \in Procs :
            /\ PutKeepsRecords(p, "createUser", users, users')
            /\ PutKeepsRecords(p, "createJob", jobs, jobs')
       /\ \A p, q \in Procs :
            (/\ p # q
             /\ inv'[p].op \in {"createUser", "createJob"} /\ inv'[p].pc # "done"
             /\ inv'[q].op \in {"createUser", "createJob"} /\ inv'[q].pc # "done")
            => inv'[p].uid # inv'[q].uid]_vars

\* A createUser whose username nobody holds was answered 409: its identifier
\* was that of a record stored by incrementUserView, which is still as it was.
C15_Witness ==
    \E p \in Procs :
        /\ Answered(p, "createUser", 409)
        /\ Holders(users, inv[p].body.username) = {}
        /\ 0 \in DOMAIN users
        /\ ~Has(users[0], "username")

(***************************************************************************)
(* C16  The record a create stores.                                        *)
(***************************************************************************)
\* C16: a createUser that returns 201 stores a user with view = 0 and
\* createdAt = updatedAt, and a createJob that returns 201 stores a job with
\* view = 0, verified = false, appliedBy = [] and createdAt = updatedAt,
\* whatever the body holds under these names.
C16_CreatedRecordDefaults ==
    [][\A p \in Procs :
         /\ (At(p, "createUser", "put") /\ inv'[p].status = 201)
            => LET user == users'[inv[p].uid]
               IN  /\ user.view = 0
                   /\ user.createdAt = user.updatedAt
                   /\ user.createdAt = inv[p].now
         /\ (At(p, "createJob", "put") /\ inv'[p].status = 201)
            => LET job == jobs'[inv[p].uid]
               IN  /\ job.view = 0
                   /\ job.verified = FALSE
                   /\ job.appliedBy = << >>
                   /\ job.createdAt = job.updatedAt
                   /\ job.createdAt = inv[p].now]_vars

\* A createUser and a createJob whose bodies hold a view of 7 and timestamps
\* were answered 201, and the stored records have view 0 and the time of the
\* call in both timestamps.
C16_Witness ==
    /\ Answered("p1", "createUser", 201)
    /\ Answered("p2", "createJob", 201)
    /\ Has(inv["p1"].body, "view") /\ inv["p1"].body.view = 7
    /\ Has(inv["p2"].body, "view") /\ inv["p2"].body.view = 7
    /\ \E k \in Holders(users, inv["p1"].body.username) :
         users[k].view = 0 /\ users[k].createdAt = users[k].updatedAt
    /\ \E j \in DOMAIN jobs :
         /\ Has(jobs[j], "createdAt")
         /\ jobs[j].view = 0
         /\ jobs[j].verified = FALSE
         /\ jobs[j].appliedBy = << >>
         /\ jobs[j].createdAt = jobs[j].updatedAt

\* The step in which the invocation of "p1" is answered with this status, and
\* the steps of an invocation that only read: the start, a get, a query.
AnswersWith(status) ==
    /\ inv'["p1"].pc = "done"
    /\ inv'["p1"].status = status
    /\ calls' # calls \/ inv["p1"].pc # "done"

ReadingStep == inv["p1"].pc \in {"done", "get", "query"}

StoresUnchanged == UNCHANGED <<users, jobs, pool>>

\* C17: when a user, casting or auth handler returns 400, the datastore and
\* the identity provider are as they were before the invocation and the
\* handler has sent no write to either: the answer is given by a step that
\* only reads, and every step that only reads leaves the stores as they are.
C17_NoWriteBefore400 ==
    [][/\ ReadingStep => StoresUnchanged
       /\ AnswersWith(400) => ReadingStep]_vars

\* C17, amended: the stores are as they were before the invocation; a user or
\* casting handler has sent no write, and an auth handler has sent at most the
\* one request to the identity provider, which the provider refused.
C17_StoresUnchangedOn400 ==
    [][/\ ReadingStep => StoresUnchanged
       /\ AnswersWith(400) =>
            /\ StoresUnchanged
            /\ ReadingStep \/ inv["p1"].pc = "cognito"]_vars

\* confirmSignUp of a user waiting for confirmation was answered 400 by the
\* pool, and the user still waits with the code that was sent.
C17_Witness ==
    /\ inv["p1"].op = "confirmSignUp"
    /\ inv["p1"].status = 400
    /\ ~NoUsername(inv["p1"].body)
    /\ AuthUsername(inv["p1"].body) \in DOMAIN pool
    /\ ~pool[AuthUsername(inv["p1"].body)].confirmed
    /\ pool[AuthUsername(inv["p1"].body)].code \in PoolCodes

\* C18: after any sequence of createJob and updateJob calls, every stored job
\* has a jobCategory among the twelve valid categories and a jobType that is
\* Online or Offline.
C18_StoredJobsHaveValidEnums ==
    \A jobId \in DOMAIN jobs :
        /\ Has(jobs[jobId], "jobCategory")
        /\ jobs[jobId].jobCategory \in validCategories
        /\ Has(jobs[jobId], "jobType")
        /\ jobs[jobId].jobType \in validJobTypes

\* C19: every handler returns a response for every input event and every
\* failure of the datastore: a failure that is not a validation, conflict or
\* not-found case, an unparsable request body included, is answered with 500
\* and never thrown out of the handler.
C19_EveryInvocationAnswered ==
    \A p \in Procs :
        /\ inv[p].pc # "thrown"
        /\ inv[p].pc = "done" /\ inv[p].body = UnparsableBody => inv[p].status = 500

\* The applications of user u that are stored, over all jobs.
StoredApplications(u) ==
    {<<j, i>> \in (DOMAIN jobs) \X (1..MaxApplyCalls) :
        /\ i <= Len(StoredList(jobs, j, "appliedBy"))
        /\ StoredList(jobs, j, "appliedBy")[i].userId = u}

\* C20: getUserApplications(userId) returns all applications of the user: for
\* every application stored in a job, as after applyForJob returned 201, the
\* list holds an entry with that jobId and userId, and count is the number of
\* the user's applications over all jobs.
C20_AllApplicationsReturned ==
    LET r == inv["p1"]
    IN  (r.op = "getUserApplications" /\ r.pc = "done" /\ r.status = 200) =>
            /\ \A a \in StoredApplications(r.id) :
                 \E i \in 1..Len(r.item.applications) :
                     /\ r.item.applications[i].jobId = a[1]
                     /\ r.item.applications[i].userId = r.id
            /\ r.item.count = Cardinality(StoredApplications(r.id))

\* The stored jobs that match the query of a search.
Matching(query) ==
    {j \in DOMAIN jobs : Passes(jobs[j], [SearchParams(query) EXCEPT !.Limit = 0])}

Min(a, b) == IF a < b THEN a ELSE b

\* C21: the limit of a search is the number of results: with m stored records
\* matching the query and a positive limit L, the response holds min(L, m)
\* items, each of which matches the query.
C21_LimitIsNumberOfResults ==
    LET r == inv["p1"]
    IN  (r.op = "searchJobs" /\ r.pc = "done" /\ r.status = 200) =>
            /\ Len(r.item.items)
                 = Min(OrElse(r.body, "limit", 10), Cardinality(Matching(r.body)))
            /\ \A i \in 1..Len(r.item.items) : r.item.items[i].jobId \in Matching(r.body)

\* C22: updateApplicationStatus accepts only the statuses 1 and 2: a request
\* with any other value is not answered 200, and the status it stores in an
\* application is always the number 1 or the number 2.
C22_OnlyStatusOneOrTwo ==
    /\ \A p \in Procs :
         (/\ inv[p].op = "updateApplicationStatus" /\ inv[p].pc = "done"
          /\ inv[p].body.status \notin {"1", "2"})
            => inv[p].status # 200
    /\ \A j \in DOMAIN jobs :
         \A i \in 1..Len(StoredList(jobs, j, "appliedBy")) :
            Has(jobs[j].appliedBy[i], "status") => jobs[j].appliedBy[i].status \in {"1", "2"}

\* The invocation of instance p has been answered with a response.
HasResponse(p) == inv[p].op # "none" /\ inv[p].pc = "done"

\* C23: every response is a uniform envelope: with status 200 or 201 its body
\* has success = true and a message, with any other status it has
\* success = false and a message, and all carry the same CORS headers.
C23_UniformEnvelope ==
    \A p \in Procs :
        HasResponse(p) =>
            LET response == Response(inv[p])
            IN  /\ response.headers = CorsHeaders
                /\ response.body.success = (response.statusCode \in {200, 201})
                /\ Has(response.body, "message")

\* C23, amended: success is true exactly for 200 and 201 and the headers are
\* the same; every error and every success of a handler that writes or calls
\* the identity provider has a message, and the success of a handler that only
\* reads has none.
C23_EnvelopeButForReads ==
    \A p \in Procs :
        HasResponse(p) =>
            LET response == Response(inv[p])
            IN  /\ response.headers = CorsHeaders
                /\ response.body.success = (response.statusCode \in {200, 201})
                /\ Has(response.body, "message")
                     <=> ~(inv[p].op \in ReadOps /\ response.statusCode = 200)

\* listJobs has returned a page of stored jobs: its response has success = true
\* and no message.
C23_Witness ==
    /\ inv["p1"].op = "listJobs"
    /\ inv["p1"].pc = "done"
    /\ inv["p1"].status = 200
    /\ Len(inv["p1"].item.items) > 0
    /\ ~Has(Response(inv["p1"]).body, "message")

\* The update of instance p on `table` is written on a stored record and
\* answered 200.
UpdateWritten(p, op, table) ==
    /\ At(p, op, "update")
    /\ inv'[p].pc = "done"
    /\ inv'[p].status = 200
    /\ inv[p].id \in DOMAIN table

\* The record of the update has the body's value in the allow-listed fields
\* of the body, the time of the handler in updatedAt, and its old value in
\* every other field; no other record changes.
OnlyAllowListedFieldsChange(p, before, after, updateableFields) ==
    LET r == inv[p]
        written == DOMAIN r.body \cap updateableFields
    IN  /\ DOMAIN after = DOMAIN before
        /\ DOMAIN after[r.id] = DOMAIN before[r.id] \cup written \cup {"updatedAt"}
        /\ \A f \in DOMAIN after[r.id] :
             after[r.id][f] = IF f \in written THEN r.body[f]
                              ELSE IF f = "updatedAt" THEN r.now
                              ELSE before[r.id][f]
        /\ \A k \in DOMAIN before \ {r.id} : after[k] = before[k]

\* C24: a successful updateUser or updateJob changes exactly the allow-listed
\* top-level fields present in the body and updatedAt, which it always sets;
\* every other stored field keeps its value and the keys of the body outside
\* the allow-list are ignored.
C24_UpdateChangesOnlyAllowListed ==
    [][\A p \in Procs :
         /\ UpdateWritten(p, "updateUser", users)
              => OnlyAllowListedFieldsChange(p, users, users', userUpdateableFields)
         /\ UpdateWritten(p, "updateJob", jobs)
              => OnlyAllowListedFieldsChange(p, jobs, jobs', jobUpdateableFields)]_vars

\* updateUser with a body that holds createdAt, which is not allow-listed, was
\* answered 200 and the stored createdAt is not that of the body.
C24_Witness ==
    \E p \in Procs :
        /\ inv[p].op = "updateUser"
        /\ inv[p].pc = "done"
        /\ inv[p].status = 200
        /\ Has(inv[p].body, "createdAt")
        /\ inv[p].id \in DOMAIN users
        /\ Has(users[inv[p].id], "username")
        /\ users[inv[p].id].createdAt # inv[p].body.createdAt

\* The step is taken by instance p running handler op.
StepOf(p, op) == inv'[p] # inv[p] /\ inv'[p].op = op

\* Every record but the one under `key` is the same before and after.
OnlyRecordChanges(before, after, key) ==
    /\ DOMAIN after \ {key} = DOMAIN before \ {key}
    /\ \A k \in DOMAIN before \ {key} : after[k] = before[k]

\* C25: applyForJob and addConnection are single-item writes: applyForJob
\* changes only the job record named by jobId and no user record, and
\* addConnection changes only the record of the user named in the path, not
\* the records of senderId or receiverId.
C25_SingleItemWrites ==
    [][\A p \in Procs :
         /\ StepOf(p, "applyForJob")
              => (users' = users /\ OnlyRecordChanges(jobs, jobs', inv'[p].id))
         /\ StepOf(p, "addConnection")
              => (jobs' = jobs /\ OnlyRecordChanges(users, users', inv'[p].id))]_vars

\* A stored user has applied for a job with 201: the application is in the
\* job, and the record of the user is as createUser stored it.
C25_Witness ==
    \E p \in Procs :
        /\ inv[p].op = "applyForJob"
        /\ inv[p].status = 201
        /\ inv[p].body.userId \in DOMAIN users
        /\ Applied(inv[p].id, inv[p].body.userId)
        /\ users[inv[p].body.userId].createdAt = users[inv[p].body.userId].updatedAt

\* The handlers that check that the record exists before they write it.
CheckingUserOps == {"updateUser", "addWorkExperience", "addPortfolioItem", "addConnection"}

CheckingJobOps ==
    {"updateJob", "applyForJob", "addDocument", "updateApplicationStatus", "removeDocument"}

\* C26: a handler that checks existence first never creates a record: when
\* the record was deleted between the check and the write, the store has no
\* record for that id after the write.
C26_CheckedWriteNeverCreates ==
    [][\A p \in Procs :
         /\ (inv[p].op \in CheckingUserOps /\ inv[p].pc = "update" /\ inv'[p].pc = "done")
              => (inv[p].id \notin DOMAIN users => inv[p].id \notin DOMAIN users')
         /\ (inv[p].op \in CheckingJobOps /\ inv[p].pc = "update" /\ inv'[p].pc = "done")
              => (inv[p].id \notin DOMAIN jobs => inv[p].id \notin DOMAIN jobs')]_vars

\* C27: a document that addDocument acknowledged with 201 stays in the list
\* of documents of its job until a removeDocument names its id, under any
\* interleaving of addDocument and removeDocument on the job: a step takes a
\* stored document out of the list only when it is the write of a
\* removeDocument for the id of that document.
C27_DocumentsStayUntilRemoved ==
    [][\A j \in DOMAIN jobs \cap DOMAIN jobs' :
         \A d \in Range(StoredList(jobs, j, "documents")) :
            \/ d \in Range(StoredList(jobs', j, "documents"))
            \/ \E p \in Procs :
                 /\ At(p, "removeDocument", "update")
                 /\ inv'[p].pc = "done"
                 /\ inv[p].id = j
                 /\ inv[p].arg = d.id]_vars

\* The step is the write of an increment of the view of record `id`.
Increments(op, id) ==
    \E p \in Procs : At(p, op, "update") /\ inv[p].id = id /\ inv'[p].pc = "done"

\* The view of every stored record is one higher after the write of an
\* increment on it and the same after every other step, and the response of
\* the increment holds the view as written.
ViewsCount(op, before, after) ==
    /\ \A id \in DOMAIN before :
         Has(before[id], "view") =>
            after[id].view = before[id].view + (IF Increments(op, id) THEN 1 ELSE 0)
    /\ \A p \in Procs :
         (At(p, op, "update") /\ inv'[p].pc = "done")
            => (inv'[p].status = 200 /\ inv'[p].item.view = after[inv[p].id].view)

\* The last responses of two instances to increments on one record hold
\* different views.
DistinctViews(op) ==
    \A p, q \in Procs :
        (/\ p # q
         /\ inv[p].op = op /\ inv[q].op = op
         /\ inv[p].id = inv[q].id
         /\ inv[p].pc = "done" /\ inv[q].pc = "done")
            => inv[p].item.view # inv[q].item.view

\* C28: view increments are not lost: under any interleaving of
\* incrementUserView (or incrementJobView) invocations on a stored record,
\* each write raises the stored view by exactly one, nothing else changes it,
\* and the responses carry distinct views.
C28_ViewIncrementsNotLost ==
    [][/\ ViewsCount("incrementUserView", users, users')
       /\ ViewsCount("incrementJobView", jobs, jobs')
       /\ DistinctViews("incrementUserView")'
       /\ DistinctViews("incrementJobView")']_vars

\* Two overlapping increments on a record that createUser stored have both
\* been answered, and the stored view is 2.
C28_Witness ==
    /\ inv["p1"].op = "incrementUserView" /\ inv["p1"].pc = "done"
    /\ inv["p2"].op = "incrementUserView" /\ inv["p2"].pc = "done"
    /\ inv["p1"].id = inv["p2"].id
    /\ inv["p1"].id \in DOMAIN users
    /\ Has(users[inv["p1"].id], "username")
    /\ users[inv["p1"].id].view = 2

\* The updatedAt of the records stored before and after a step does not
\* decrease.
UpdatedAtGrows(before, after) ==
    \A id \in DOMAIN before \cap DOMAIN after :
        (Has(before[id], "updatedAt") /\ Has(after[id], "updatedAt"))
            => after[id].updatedAt >= before[id].updatedAt

\* C29: with a clock that never goes backwards, the updatedAt of a stored user
\* or job never decreases from one write to the next, under any interleaving
\* of the handlers that write the record.
C29_UpdatedAtNeverDecreases ==
    [][UpdatedAtGrows(users, users') /\ UpdatedAtGrows(jobs, jobs')]_vars

AuthOps ==
    {"signUp", "signIn", "confirmSignUp", "resendConfirmationCode",
     "adminConfirmUser", "forgotPassword", "resetPassword"}

\* The body supplies the identifier: the key is there with a string that is
\* not empty.
Supplied(body, field) == Has(body, field) /\ body[field] # ""

ExactlyOneSupplied(body) == Supplied(body, "email") # Supplied(body, "phone_number")

\* C30: an auth handler calls the identity provider only when exactly one of
\* email and phone_number is supplied; with neither or with both it returns
\* 400 without a call, and the username it passes to the provider is the one
\* identifier supplied.
C30_ProviderCalledWithTheOneIdentifier ==
    \A p \in Procs :
        inv[p].op \in AuthOps =>
            /\ ~ExactlyOneSupplied(inv[p].body)
                 => (inv[p].pc = "done" /\ inv[p].status = 400)
            /\ inv[p].pc = "cognito"
                 => /\ ExactlyOneSupplied(inv[p].body)
                    /\ inv[p].item.Username =
                         IF Supplied(inv[p].body, "email")
                         THEN inv[p].body.email ELSE inv[p].body.phone_number

\* resendConfirmationCode is about to call the pool with the phone number of
\* a body whose email is the empty string.
C30_Witness ==
    /\ inv["p1"].op = "resendConfirmationCode"
    /\ inv["p1"].pc = "cognito"
    /\ Has(inv["p1"].body, "email")
    /\ Supplied(inv["p1"].body, "phone_number")
    /\ inv["p1"].item.Username = inv["p1"].body.phone_number

====
